---- MODULE Spec2Model ----
(***************************************************************************)
(* Model of the SPL compiler's middle end: the scoped symbol table         *)
(* (symbol_table.py), the semantic analyzer (semantic_analyzer.py) and the *)
(* IR code generator (code_gen.py) and the IR inliner (inline.py).          *)
(*                                                                         *)
(* Spec         drives one SymbolTable through enter_scope / exit_scope /  *)
(*              declare / lookup / check_no_global_name_clashes.           *)
(* SpecCompile  picks a program, runs analyze(), then the code generator,  *)
(*              then executes the emitted IR one instruction at a time.    *)
(* SpecInline   drives one Inliner through inline_calls over IR sequences. *)
(***************************************************************************)
EXTENDS Integers, Sequences, FiniteSets, TLC

VARIABLES
    symtab,     \* the SymbolTable object driven by Spec
    op,         \* the last table operation and what it returned or raised
    issued,     \* history: the unique_name of every SymbolInfo a successful declare returned
    nissued,    \* history: how many declares succeeded
    returned,   \* history: per open frame, the SymbolInfos declare returned in it
    prog,       \* the AST handed to the analyzer (SpecCompile)
    pc,         \* pipeline position: "idle", "parsed", "analyzed", "generated", "running", "halted"
    az,         \* the SemanticAnalyzer object after analyze()
    cg,         \* the CodeGenerator object after generation
    store,      \* IR execution: value of every place
    ip,         \* IR execution: index of the next instruction
    visited,    \* IR execution: indices of the instructions executed so far
    inliner,    \* the Inliner object driven by SpecInline
    ir_code,    \* the argument of the last inline_calls
    inlined_ir, \* what the last inline_calls returned (None when it raised)
    raised      \* the error the last inline_calls raised

vars == <<symtab, op, issued, nissued, returned, prog, pc, az, cg, store, ip, visited,
          inliner, ir_code, inlined_ir, raised>>

tableVars == <<symtab, op, issued, nissued, returned>>
compileVars == <<prog, pc, az, cg, store, ip, visited>>
inlineVars == <<inliner, ir_code, inlined_ir, raised>>

-----------------------------------------------------------------------------
(* Bounds of the model.                                                    *)

MaxDepth == 2
MaxDecls == 3

\* Original names; "x" and "x_1" make the "<prefix>_<name>_<counter>" format ambiguous-looking.
Names == {"x", "x_1"}
Kinds == {"var", "param", "proc", "func"}

Max(S) == CHOOSE m \in S : \A o \in S : o <= m

-----------------------------------------------------------------------------
(* symbol_table.py                                                         *)

\* lookup() returns None when no frame holds the name.
None == [kind |-> "None"]

EmptyFrame == [n \in {} |-> None]

\* SymbolTable.__init__
NewTable(prefix) ==
    [ scopes        |-> <<>>,
      scope_meta    |-> <<>>,
      name_counters |-> [n \in {} |-> 0],
      global_procs  |-> EmptyFrame,
      global_funcs  |-> EmptyFrame,
      unique_prefix |-> prefix ]

\* dict assignment d[k] = v
Put(d, k, v) == [n \in DOMAIN d \cup {k} |-> IF n = k THEN v ELSE d[n]]

\* enter_scope: push an empty frame and its metadata.
EnterScope(st, scope_kind, node_id) ==
    [st EXCEPT !.scopes = Append(@, EmptyFrame),
               !.scope_meta = Append(@, <<scope_kind, node_id>>)]

\* exit_scope: raise on an empty stack, else pop frame and metadata.
ExitScope(st) ==
    IF st.scopes = <<>>
    THEN [st |-> st, err |-> "NoScope", popped |-> EmptyFrame]
    ELSE [st |-> [st EXCEPT !.scopes = SubSeq(@, 1, Len(@) - 1),
                            !.scope_meta = SubSeq(@, 1, Len(@) - 1)],
          err |-> "none",
          popped |-> st.scopes[Len(st.scopes)]]

\* current_scope_level
CurrentScopeLevel(st) == Len(st.scopes)

\* A slip of _gen_unique_name: the incremented counter is not stored back.
GenUniqueNameNoStore(st, base_name) ==
    LET c == (IF base_name \in DOMAIN st.name_counters THEN st.name_counters[base_name] ELSE 0) + 1
    IN  [st |-> st,
         unique_name |-> st.unique_prefix \o "_" \o base_name \o "_" \o ToString(c)]

\* _gen_unique_name: per-original-name counter, formatted "<prefix>_<name>_<c>".
GenUniqueName(st, base_name) ==
    LET c == (IF base_name \in DOMAIN st.name_counters THEN st.name_counters[base_name] ELSE 0) + 1
    IN  [st |-> [st EXCEPT !.name_counters = Put(@, base_name, c)],
         unique_name |-> st.unique_prefix \o "_" \o base_name \o "_" \o ToString(c)]

\* A slip of the duplicate test: any open frame holding the name counts.
IsDuplicateAnyFrame(st, name) ==
    \E i \in 1..Len(st.scopes) : name \in DOMAIN st.scopes[i]

\* _declare's duplicate test: only the top frame is consulted.
IsDuplicate(st, name) ==
    name \in DOMAIN st.scopes[Len(st.scopes)]

\* _declare
Declare(st, name, kind, decl_type, node_id) ==
    IF st.scopes = <<>>
    THEN [st |-> st, err |-> "NoScope", info |-> None]
    ELSE IF IsDuplicate(st, name)
    THEN [st |-> st, err |-> "DuplicateDeclaration", info |-> None]
    ELSE
      LET scope_level == Len(st.scopes)
          g    == GenUniqueName(st, name)
          info == [ name        |-> name,
                    kind        |-> kind,
                    decl_type   |-> decl_type,
                    scope_level |-> scope_level,
                    unique_name |-> g.unique_name,
                    node_id     |-> node_id ]
          st1  == [g.st EXCEPT !.scopes[scope_level] = Put(@, name, info)]
          st2  == IF scope_level = 1 /\ kind = "proc"
                  THEN [st1 EXCEPT !.global_procs = Put(@, name, info)] ELSE st1
          st3  == IF scope_level = 1 /\ kind = "func"
                  THEN [st2 EXCEPT !.global_funcs = Put(@, name, info)] ELSE st2
      IN  [st |-> st3, err |-> "none", info |-> info]

\* declare_var / declare_param default to numeric; procs and funcs are type-less.
DeclTypeOf(kind) == IF kind \in {"var", "param"} THEN "numeric" ELSE "None"

DeclareVar(st, name, node_id)   == Declare(st, name, "var", "numeric", node_id)
DeclareParam(st, name, node_id) == Declare(st, name, "param", "numeric", node_id)
DeclareProc(st, name, node_id)  == Declare(st, name, "proc", "None", node_id)
DeclareFunc(st, name, node_id)  == Declare(st, name, "func", "None", node_id)

RECURSIVE LookupFrom(_, _, _)
\* the loop of lookup: frames i, i-1, ..., 1
LookupFrom(scopes, i, name) ==
    IF i = 0 THEN None
    ELSE IF name \in DOMAIN scopes[i] THEN scopes[i][name]
    ELSE LookupFrom(scopes, i - 1, name)

RECURSIVE LookupUp(_, _, _)
LookupUp(scopes, i, name) ==
    IF i > Len(scopes) THEN None
    ELSE IF name \in DOMAIN scopes[i] THEN scopes[i][name]
    ELSE LookupUp(scopes, i + 1, name)

\* A slip of lookup: the frames are scanned outermost first.
LookupOuterFirst(st, name) == LookupUp(st.scopes, 1, name)

\* lookup: innermost frame first.
Lookup(st, name) == LookupFrom(st.scopes, Len(st.scopes), name)

\* check_no_global_name_clashes: the names of _scopes[0] by kind, pairwise intersected.
\* Returns the set of clash groups; the method raises iff it is non-empty.
GlobalNameClashes(st) ==
    IF Len(st.scopes) < 1 THEN {}
    ELSE
      LET global_scope == st.scopes[1]
          vars_  == {n \in DOMAIN global_scope : global_scope[n].kind = "var"}
          procs_ == {n \in DOMAIN global_scope : global_scope[n].kind = "proc"}
          funcs_ == {n \in DOMAIN global_scope : global_scope[n].kind = "func"}
      IN  {c \in { [what |-> "Variable/function", names |-> vars_ \cap funcs_],
                   [what |-> "Variable/procedure", names |-> vars_ \cap procs_],
                   [what |-> "Function/procedure", names |-> funcs_ \cap procs_] }
             : c.names # {}}

\* check_no_shadowing_of_params: the names that are both parameter and local.
ShadowedParams(param_names, local_names) ==
    {param_names[i] : i \in 1..Len(param_names)} \cap {local_names[i] : i \in 1..Len(local_names)}

-----------------------------------------------------------------------------
(* ast_nodes.py: the AST.  A node is a record tagged with its class name;   *)
(* id(node) is modelled by the node's path from the ProgramNode (child      *)
(* numbers, in field order).                                                *)

VarNode(name) == [t |-> "VarNode", name |-> name]
IntValue(v)   == [t |-> "int", v |-> v]
StrValue(s)   == [t |-> "str", s |-> s]
NoneNode      == [t |-> "None"]
AtomNode(value) == [t |-> "AtomNode", value |-> value]
TermNode(value) == [t |-> "TermNode", value |-> value]
ParenTermNode(term) == [t |-> "ParenTermNode", term |-> term]
UnaryOperationNode(operator, operand) ==
    [t |-> "UnaryOperationNode", operator |-> operator, operand |-> operand]
BinaryOperationNode(left_operand, operator, right_operand) ==
    [t |-> "BinaryOperationNode", left_operand |-> left_operand,
     operator |-> operator, right_operand |-> right_operand]
InputNode(arguments) == [t |-> "InputNode", arguments |-> arguments]
AlgorithmNode(instructions) == [t |-> "AlgorithmNode", instructions |-> instructions]
HaltNode == [t |-> "HaltNode"]
PrintNode(output) == [t |-> "PrintNode", output |-> output]
AssignmentNode(variable, rhs) == [t |-> "AssignmentNode", variable |-> variable, rhs |-> rhs]
ProcedureCallNode(name, arguments) ==
    [t |-> "ProcedureCallNode", name |-> name, arguments |-> arguments]
FunctionCallNode(name, arguments) ==
    [t |-> "FunctionCallNode", name |-> name, arguments |-> arguments]
WhileLoopNode(condition, body) == [t |-> "WhileLoopNode", condition |-> condition, body |-> body]
DoUntilLoopNode(body, condition) == [t |-> "DoUntilLoopNode", body |-> body, condition |-> condition]
IfBranchNode(condition, then_branch, else_branch) ==
    [t |-> "IfBranchNode", condition |-> condition,
     then_branch |-> then_branch, else_branch |-> else_branch]
VariableDeclsNode(variables) == [t |-> "VariableDeclsNode", variables |-> variables]
Max3Node(variables) == [t |-> "Max3Node", variables |-> variables]
BodyNode(locals, algorithm) == [t |-> "BodyNode", locals |-> locals, algorithm |-> algorithm]
ProcedureDefNode(name, params, body) ==
    [t |-> "ProcedureDefNode", name |-> name, params |-> params, body |-> body]
FunctionDefNode(name, params, body, return_atom) ==
    [t |-> "FunctionDefNode", name |-> name, params |-> params, body |-> body,
     return_atom |-> return_atom]
ProcDefsNode(procedures) == [t |-> "ProcDefsNode", procedures |-> procedures]
FuncDefsNode(functions) == [t |-> "FuncDefsNode", functions |-> functions]
MainProgNode(locals, algorithm) == [t |-> "MainProgNode", locals |-> locals, algorithm |-> algorithm]
ProgramNode(globals, procs, funcs, main) ==
    [t |-> "ProgramNode", globals |-> globals, procs |-> procs, funcs |-> funcs, main |-> main]

-----------------------------------------------------------------------------
(* semantic_analyzer.py.  A raised SemanticError is the field err (its      *)
(* class; "none" while no error was raised); every visitor returns at once  *)
(* when an error is pending, which is how the exception unwinds the walk.   *)

\* SemanticAnalyzer.__init__ ; ty and names carry a visitor's return value.
\* uses records, next to each symbol_info annotation, which visitor wrote it.
NewAnalyzer ==
    [ symbol_table |-> NewTable("v"),
      node_types   |-> EmptyFrame,
      annot        |-> EmptyFrame,
      uses         |-> EmptyFrame,
      current_function_name |-> "",
      err   |-> "none",
      ty    |-> "",
      names |-> <<>> ]

\* raise SemanticError(...)
Raise(a, e) == [a EXCEPT !.err = e]

\* _set_node_type
SetNodeType(a, path, type_) == [a EXCEPT !.node_types = Put(@, path, type_), !.ty = type_]

\* var_node.symbol_info = info
Annotate(a, path, info, use) ==
    [a EXCEPT !.annot = Put(@, path, info), !.uses = Put(@, path, use)]

RECURSIVE DeclLoop(_, _, _, _, _, _)
\* The declaration loops of _visit_variable_decls, _declare_procedures,
\* _declare_functions, _visit_parameters and _visit_body: a seen_names test,
\* then the table's declare; names collects the declared names.
\* items[i] is a VarNode, or a definition node whose name field is the VarNode.
DeclLoop(a, items, i, kind, seen, path) ==
    IF a.err # "none" \/ i > Len(items) THEN a
    ELSE
      LET name == IF kind \in {"proc", "func"} THEN items[i].name.name ELSE items[i].name
      IN  IF name \in seen THEN Raise(a, "DuplicateDeclaration")
          ELSE
            LET r == Declare(a.symbol_table, name, kind, DeclTypeOf(kind), path \o <<i>>)
            IN  IF r.err # "none" THEN Raise(a, r.err)
                ELSE DeclLoop([a EXCEPT !.symbol_table = r.st, !.names = Append(@, name)],
                              items, i + 1, kind, seen \cup {name}, path)

\* _visit_variable_decls
VisitVariableDecls(a, node, path) == DeclLoop([a EXCEPT !.names = <<>>], node.variables, 1, "var", {}, path)
\* _declare_procedures
DeclareProcedures(a, node, path) == DeclLoop([a EXCEPT !.names = <<>>], node.procedures, 1, "proc", {}, path)
\* _declare_functions
DeclareFunctions(a, node, path) == DeclLoop([a EXCEPT !.names = <<>>], node.functions, 1, "func", {}, path)
\* _visit_parameters
VisitParameters(a, node, path) == DeclLoop([a EXCEPT !.names = <<>>], node.variables, 1, "param", {}, path)

\* _visit_atom: a literal, or a name that lookup must find; the kind of the
\* symbol found is not tested.
VisitAtom(a, node, path) ==
    IF a.err # "none" THEN a
    ELSE IF node.value.t = "int" THEN SetNodeType(a, path, "numeric")
    ELSE IF node.value.t = "VarNode" THEN
      LET var_info == Lookup(a.symbol_table, node.value.name)
      IN  IF var_info = None THEN Raise(a, "UndeclaredIdentifier")
          ELSE SetNodeType(Annotate(a, path \o <<1>>, var_info, "var"), path, "numeric")
    ELSE Raise(a, "InvalidNode")

RECURSIVE VisitInputFrom(_, _, _, _)
\* _visit_input
VisitInputFrom(a, arguments, i, path) ==
    IF a.err # "none" \/ i > Len(arguments) THEN a
    ELSE VisitInputFrom(VisitAtom(a, arguments[i], path \o <<i>>), arguments, i + 1, path)

VisitInput(a, node, path) == VisitInputFrom(a, node.arguments, 1, path)

CallKindAny(info, wanted) == info.kind \in Kinds

\* symbol_info.kind != "func" / != "proc": the kind test of a call target.
CallKindOk(info, wanted) == info.kind = wanted

\* _visit_function_call
VisitFunctionCall(a, node, path) ==
    IF a.err # "none" THEN a
    ELSE
      LET func_info == Lookup(a.symbol_table, node.name.name)
      IN  IF func_info = None THEN Raise(a, "UndeclaredIdentifier")
          ELSE IF ~CallKindOk(func_info, "func") THEN Raise(a, "KindMismatch")
          ELSE
            LET a1 == VisitInput(Annotate(a, path \o <<1>>, func_info, "func"),
                                 node.arguments, path \o <<2>>)
            IN  IF a1.err # "none" THEN a1 ELSE SetNodeType(a1, path, "numeric")

\* _visit_procedure_call
VisitProcedureCall(a, node, path) ==
    IF a.err # "none" THEN a
    ELSE
      LET proc_info == Lookup(a.symbol_table, node.name.name)
      IN  IF proc_info = None THEN Raise(a, "UndeclaredIdentifier")
          ELSE IF ~CallKindOk(proc_info, "proc") THEN Raise(a, "KindMismatch")
          ELSE VisitInput(Annotate(a, path \o <<1>>, proc_info, "proc"),
                          node.arguments, path \o <<2>>)

RECURSIVE VisitTerm(_, _, _)
RECURSIVE VisitParenTerm(_, _, _)
RECURSIVE VisitUnaryOp(_, _, _)
RECURSIVE VisitBinaryOp(_, _, _)

\* _visit_term
VisitTerm(a, node, path) ==
    IF a.err # "none" THEN a
    ELSE IF node.value.t = "AtomNode" THEN VisitAtom(a, node.value, path \o <<1>>)
    ELSE IF node.value.t = "ParenTermNode" THEN VisitParenTerm(a, node.value, path \o <<1>>)
    ELSE Raise(a, "InvalidNode")

\* _visit_paren_term
VisitParenTerm(a, node, path) ==
    IF a.err # "none" THEN a
    ELSE IF node.term.t = "UnaryOperationNode" THEN VisitUnaryOp(a, node.term, path \o <<1>>)
    ELSE IF node.term.t = "BinaryOperationNode" THEN VisitBinaryOp(a, node.term, path \o <<1>>)
    ELSE Raise(a, "InvalidNode")

VisitUnaryOpUntyped(a, node, path) ==
    IF a.err # "none" THEN a
    ELSE SetNodeType(VisitTerm(a, node.operand, path \o <<1>>), path,
                     IF node.operator = "neg" THEN "numeric" ELSE "boolean")

\* _visit_unary_op
VisitUnaryOp(a, node, path) ==
    IF a.err # "none" THEN a
    ELSE
      LET a1 == VisitTerm(a, node.operand, path \o <<1>>)
      IN  IF a1.err # "none" THEN a1
          ELSE IF node.operator = "neg" THEN
            IF a1.ty # "numeric" THEN Raise(a1, "TypeMismatch")
            ELSE SetNodeType(a1, path, "numeric")
          ELSE IF node.operator = "not" THEN
            IF a1.ty # "boolean" THEN Raise(a1, "TypeMismatch")
            ELSE SetNodeType(a1, path, "boolean")
          ELSE Raise(a1, "InvalidNode")

\* _visit_binary_op
VisitBinaryOp(a, node, path) ==
    IF a.err # "none" THEN a
    ELSE
      LET a1 == VisitTerm(a, node.left_operand, path \o <<1>>)
          a2 == VisitTerm(a1, node.right_operand, path \o <<2>>)
          left_type  == a1.ty
          right_type == a2.ty
      IN  IF a2.err # "none" THEN a2
          ELSE IF node.operator \in {"plus", "minus", "mult", "div"} THEN
            IF left_type # "numeric" \/ right_type # "numeric" THEN Raise(a2, "TypeMismatch")
            ELSE SetNodeType(a2, path, "numeric")
          ELSE IF node.operator \in {"eq", ">"} THEN
            IF left_type # "numeric" \/ right_type # "numeric" THEN Raise(a2, "TypeMismatch")
            ELSE SetNodeType(a2, path, "boolean")
          ELSE IF node.operator \in {"and", "or"} THEN
            IF left_type # "boolean" \/ right_type # "boolean" THEN Raise(a2, "TypeMismatch")
            ELSE SetNodeType(a2, path, "boolean")
          ELSE Raise(a2, "InvalidNode")

\* _visit_rhs
VisitRhs(a, node, path) ==
    IF a.err # "none" THEN a
    ELSE IF node.t = "AtomNode" THEN VisitAtom(a, node, path)
    ELSE IF node.t = "FunctionCallNode" THEN VisitFunctionCall(a, node, path)
    ELSE IF node.t = "ParenTermNode" THEN VisitParenTerm(a, node, path)
    ELSE Raise(a, "InvalidNode")

\* _visit_print
VisitPrint(a, node, path) ==
    IF a.err # "none" THEN a
    ELSE IF node.output.t = "str" THEN a
    ELSE IF node.output.t = "AtomNode" THEN VisitAtom(a, node.output, path \o <<1>>)
    ELSE Raise(a, "InvalidNode")

VisitAssignmentAnyType(a, node, path) ==
    IF a.err # "none" THEN a
    ELSE
      LET var_info == Lookup(a.symbol_table, node.variable.name)
      IN  IF var_info = None THEN Raise(a, "UndeclaredIdentifier")
          ELSE IF var_info.decl_type # "numeric"
            THEN Raise(Annotate(a, path \o <<1>>, var_info, "var"), "KindMismatch")
          ELSE VisitRhs(Annotate(a, path \o <<1>>, var_info, "var"), node.rhs, path \o <<2>>)

\* _visit_assignment
VisitAssignment(a, node, path) ==
    IF a.err # "none" THEN a
    ELSE
      LET var_info == Lookup(a.symbol_table, node.variable.name)
      IN  IF var_info = None THEN Raise(a, "UndeclaredIdentifier")
          ELSE
            LET a1 == Annotate(a, path \o <<1>>, var_info, "var")
            IN  IF var_info.decl_type # "numeric" THEN Raise(a1, "KindMismatch")
                ELSE
                  LET a2 == VisitRhs(a1, node.rhs, path \o <<2>>)
                  IN  IF a2.err # "none" THEN a2
                      ELSE IF a2.ty # "numeric" THEN Raise(a2, "TypeMismatch")
                      ELSE a2

RECURSIVE VisitAlgorithmFrom(_, _, _, _)
RECURSIVE VisitInstruction(_, _, _)

\* _visit_algorithm
VisitAlgorithm(a, node, path) == VisitAlgorithmFrom(a, node.instructions, 1, path)

VisitAlgorithmFrom(a, instructions, i, path) ==
    IF a.err # "none" \/ i > Len(instructions) THEN a
    ELSE VisitAlgorithmFrom(VisitInstruction(a, instructions[i], path \o <<i>>),
                            instructions, i + 1, path)

VisitWhileLoopAnyCond(a, node, path) ==
    VisitAlgorithm(VisitTerm(a, node.condition, path \o <<1>>), node.body, path \o <<2>>)

\* _visit_while_loop
VisitWhileLoop(a, node, path) ==
    LET a1 == VisitTerm(a, node.condition, path \o <<1>>)
    IN  IF a1.err # "none" THEN a1
        ELSE IF a1.ty # "boolean" THEN Raise(a1, "NonBooleanCondition")
        ELSE VisitAlgorithm(a1, node.body, path \o <<2>>)

\* _visit_do_until_loop
VisitDoUntilLoop(a, node, path) ==
    LET a1 == VisitAlgorithm(a, node.body, path \o <<1>>)
        a2 == VisitTerm(a1, node.condition, path \o <<2>>)
    IN  IF a2.err # "none" THEN a2
        ELSE IF a2.ty # "boolean" THEN Raise(a2, "NonBooleanCondition")
        ELSE a2

\* _visit_if_branch
VisitIfBranch(a, node, path) ==
    LET a1 == VisitTerm(a, node.condition, path \o <<1>>)
    IN  IF a1.err # "none" THEN a1
        ELSE IF a1.ty # "boolean" THEN Raise(a1, "NonBooleanCondition")
        ELSE
          LET a2 == VisitAlgorithm(a1, node.then_branch, path \o <<2>>)
          IN  IF node.else_branch # NoneNode
              THEN VisitAlgorithm(a2, node.else_branch, path \o <<3>>)
              ELSE a2

\* _visit_instruction
VisitInstruction(a, node, path) ==
    IF a.err # "none" THEN a
    ELSE IF node.t = "HaltNode" THEN a
    ELSE IF node.t = "PrintNode" THEN VisitPrint(a, node, path)
    ELSE IF node.t = "AssignmentNode" THEN VisitAssignment(a, node, path)
    ELSE IF node.t = "ProcedureCallNode" THEN VisitProcedureCall(a, node, path)
    ELSE IF node.t = "WhileLoopNode" THEN VisitWhileLoop(a, node, path)
    ELSE IF node.t = "DoUntilLoopNode" THEN VisitDoUntilLoop(a, node, path)
    ELSE IF node.t = "IfBranchNode" THEN VisitIfBranch(a, node, path)
    ELSE Raise(a, "InvalidNode")

\* table call that cannot fail here, applied to the analyzer's table
WithTable(a, st) == [a EXCEPT !.symbol_table = st]

\* self.symbol_table.exit_scope() at the end of a visitor; not reached when
\* an error was raised before it.
ExitScopeOf(a) ==
    IF a.err # "none" THEN a ELSE WithTable(a, ExitScope(a.symbol_table).st)

\* _visit_body: the locals, the shadowing check, the algorithm.
VisitBody(a, node, param_names, path) ==
    IF a.err # "none" THEN a
    ELSE
      LET a1 == DeclLoop([a EXCEPT !.names = <<>>], node.locals.variables, 1, "var", {},
                         path \o <<1>>)
          local_names == a1.names
      IN  IF a1.err # "none" THEN a1
          ELSE IF ShadowedParams(param_names, local_names) # {} THEN Raise(a1, "ParamShadowing")
          ELSE VisitAlgorithm(a1, node.algorithm, path \o <<2>>)

\* _visit_procedure_def
VisitProcedureDef(a, node, path) ==
    IF a.err # "none" THEN a
    ELSE
      LET a1 == WithTable(a, EnterScope(a.symbol_table, "Procedure", path))
          a2 == VisitParameters(a1, node.params, path \o <<2>>)
      IN  ExitScopeOf(VisitBody(a2, node.body, a2.names, path \o <<3>>))

\* The end of _visit_function_def: the return atom's type, exit_scope, and
\* current_function_name reset.
FunctionDefEnd(a) ==
    IF a.err # "none" THEN a
    ELSE IF a.ty # "numeric" THEN Raise(a, "NonNumericReturn")
    ELSE [ExitScopeOf(a) EXCEPT !.current_function_name = ""]

\* _visit_function_def
VisitFunctionDef(a, node, path) ==
    IF a.err # "none" THEN a
    ELSE
      LET a0 == [a EXCEPT !.current_function_name = node.name.name]
          a1 == WithTable(a0, EnterScope(a0.symbol_table, "Function", path))
          a2 == VisitParameters(a1, node.params, path \o <<2>>)
      IN  FunctionDefEnd(VisitAtom(VisitBody(a2, node.body, a2.names, path \o <<3>>),
                                   node.return_atom, path \o <<4>>))

RECURSIVE VisitDefsFrom(_, _, _, _)
\* _visit_procedure_defs / _visit_function_defs
VisitDefsFrom(a, defs, i, path) ==
    IF a.err # "none" \/ i > Len(defs) THEN a
    ELSE VisitDefsFrom(IF defs[i].t = "FunctionDefNode"
                       THEN VisitFunctionDef(a, defs[i], path \o <<i>>)
                       ELSE VisitProcedureDef(a, defs[i], path \o <<i>>),
                       defs, i + 1, path)

\* _visit_main_prog
VisitMainProg(a, node, path) ==
    IF a.err # "none" THEN a
    ELSE
      LET a1 == WithTable(a, EnterScope(a.symbol_table, "Main", path))
          a2 == VisitVariableDecls(a1, node.locals, path \o <<1>>)
      IN  ExitScopeOf(VisitAlgorithm(a2, node.algorithm, path \o <<2>>))

\* The global phase of _visit_program: on a fresh table the Global scope is
\* entered twice, then the globals and the signatures are declared.
GlobalPhase(a, node) ==
    LET is_toplevel_call == CurrentScopeLevel(a.symbol_table) = 0
        a0 == IF is_toplevel_call
              THEN WithTable(a, EnterScope(a.symbol_table, "Global", <<>>)) ELSE a
        a1 == WithTable(a0, EnterScope(a0.symbol_table, "Global", <<>>))
        a2 == VisitVariableDecls(a1, node.globals, <<1>>)
        a3 == DeclareProcedures(a2, node.procs, <<2>>)
    IN  DeclareFunctions(a3, node.funcs, <<3>>)

\* _visit_program
VisitProgram(a, node) ==
    LET a4 == GlobalPhase(a, node)
    IN  IF a4.err # "none" THEN a4
        ELSE IF GlobalNameClashes(a4.symbol_table) # {} THEN Raise(a4, "GlobalNameClash")
        ELSE
          LET a5 == VisitDefsFrom(a4, node.procs.procedures, 1, <<2>>)
              a6 == VisitDefsFrom(a5, node.funcs.functions, 1, <<3>>)
          IN  ExitScopeOf(VisitMainProg(a6, node.main, <<4>>))

\* analyze
Analyze(ast) == VisitProgram(NewAnalyzer, ast)

-----------------------------------------------------------------------------
(* code_gen.py.  An IR line is the sequence of its blank-separated tokens.  *)
(* A raised CodeGenError is the field err; place carries a visitor's        *)
(* return value ("None" where the visitor returns nothing).                 *)

\* CodeGenerator.__init__ with the analyzer's results
NewCodeGenerator(a) ==
    [ node_types |-> a.node_types,
      annot      |-> a.annot,
      ir_code    |-> <<>>,
      temp_counter  |-> 0,
      label_counter |-> 0,
      err   |-> "none",
      place |-> "None" ]

\* raise CodeGenError(...)
CgRaise(g, e) == [g EXCEPT !.err = e]

\* _new_temp
NewTemp(g) == [g EXCEPT !.temp_counter = @ + 1, !.place = "t" \o ToString(g.temp_counter + 1)]

NewLabelReused(g) == [g EXCEPT !.place = "L" \o ToString(g.label_counter + 1)]

\* _new_label
NewLabel(g) == [g EXCEPT !.label_counter = @ + 1, !.place = "L" \o ToString(g.label_counter + 1)]

\* _emit
Emit(g, instruction) == [g EXCEPT !.ir_code = Append(@, instruction)]

\* a visitor that returns nothing
Returning(g, place) == [g EXCEPT !.place = place]

\* op_map of _visit_BinaryOperationNode
OpMap == [plus |-> "+", minus |-> "-", mult |-> "*", div |-> "/", eq |-> "="] @@ (">" :> ">")

\* _visit_VarNode
CgVisitVarNode(g, node, path) ==
    IF path \notin DOMAIN g.annot THEN CgRaise(g, "CodeGenError")
    ELSE Returning(g, g.annot[path].unique_name)

RECURSIVE CgVisit(_, _, _)
RECURSIVE CgVisitSeq(_, _, _, _)
RECURSIVE CgVisitArgs(_, _, _, _, _)
RECURSIVE GenerateConditionalJump(_, _, _, _, _)

\* _visit_AlgorithmNode: the instructions in order
CgVisitSeq(g, instructions, i, path) ==
    IF g.err # "none" \/ i > Len(instructions) THEN Returning(g, "None")
    ELSE CgVisitSeq(CgVisit(g, instructions[i], path \o <<i>>), instructions, i + 1, path)

\* [self._visit(arg) for arg in node.arguments.arguments]; places collects the results
CgVisitArgs(g, arguments, i, path, places) ==
    IF g.err # "none" THEN [g |-> g, places |-> places]
    ELSE IF i > Len(arguments) THEN [g |-> g, places |-> places]
    ELSE LET g1 == CgVisit(g, arguments[i], path \o <<i>>)
         IN  CgVisitArgs(g1, arguments, i + 1, path, Append(places, g1.place))

\* _visit_PrintNode
CgVisitPrintNode(g, node, path) ==
    IF node.output.t = "str" THEN Returning(Emit(g, <<"PRINT", "\"" \o node.output.s \o "\"">>), "None")
    ELSE IF node.output.t = "AtomNode" THEN
      LET g1 == CgVisit(g, node.output, path \o <<1>>)
      IN  IF g1.err # "none" THEN g1
          ELSE Returning(Emit(g1, <<"PRINT", g1.place>>), "None")
    ELSE CgRaise(g, "CodeGenError")

\* _visit_AssignmentNode
CgVisitAssignmentNode(g, node, path) ==
    LET g1 == CgVisit(g, node.rhs, path \o <<2>>)
        g2 == CgVisit(g1, node.variable, path \o <<1>>)
    IN  IF g2.err # "none" THEN g2
        ELSE Returning(Emit(g2, <<g2.place, "=", g1.place>>), "None")

\* _visit_AtomNode
CgVisitAtomNode(g, node, path) ==
    IF node.value.t = "VarNode" THEN CgVisit(g, node.value, path \o <<1>>)
    ELSE IF node.value.t = "int" THEN
      LET g1 == NewTemp(g)
      IN  Returning(Emit(g1, <<g1.place, "=", ToString(node.value.v)>>), g1.place)
    ELSE CgRaise(g, "CodeGenError")

\* _visit_UnaryOperationNode
CgVisitUnaryOperationNode(g, node, path) ==
    LET g1 == CgVisit(g, node.operand, path \o <<1>>)
        g2 == NewTemp(g1)
    IN  IF g1.err # "none" THEN g1
        ELSE IF node.operator = "neg"
        THEN Returning(Emit(g2, <<g2.place, "=", "-", g1.place>>), g2.place)
        ELSE CgRaise(g2, "CodeGenError")

\* _visit_BinaryOperationNode
CgVisitBinaryOperationNode(g, node, path) ==
    LET node_type == IF path \in DOMAIN g.node_types THEN g.node_types[path] ELSE "None"
    IN  IF node_type = "boolean" /\ node.operator \in {"and", "or"}
        THEN CgRaise(g, "CodeGenError")
        ELSE
          LET g1 == CgVisit(g, node.left_operand, path \o <<1>>)
              g2 == CgVisit(g1, node.right_operand, path \o <<2>>)
              g3 == NewTemp(g2)
          IN  IF g2.err # "none" THEN g2
              ELSE IF node.operator \in DOMAIN OpMap
              THEN Returning(Emit(g3, <<g3.place, "=", g1.place, OpMap[node.operator], g2.place>>),
                             g3.place)
              ELSE CgRaise(g3, "CodeGenError")

CgVisitIfBranchNodeThenFirst(g, node, path) ==
    LET gt == NewLabel(g)
        ge == IF node.else_branch # NoneNode THEN NewLabel(gt) ELSE gt
        gx == NewLabel(ge)
        g1 == GenerateConditionalJump(gx, node.condition, path \o <<1>>, gt.place,
                                      IF node.else_branch # NoneNode THEN ge.place ELSE gx.place)
        g2 == CgVisit(Emit(g1, <<"REM", gt.place>>), node.then_branch, path \o <<2>>)
        g3 == CgVisit(Emit(g2, <<"GOTO", gx.place>>), node.else_branch, path \o <<3>>)
    IN  IF g3.err # "none" THEN g3 ELSE Returning(Emit(g3, <<"REM", gx.place>>), "None")

\* _visit_IfBranchNode
CgVisitIfBranchNode(g, node, path) ==
    LET gt == NewLabel(g)
        label_then == gt.place
        ge == IF node.else_branch # NoneNode THEN NewLabel(gt) ELSE gt
        label_else == IF node.else_branch # NoneNode THEN ge.place ELSE "None"
        gx == NewLabel(ge)
        label_exit == gx.place
        g1 == GenerateConditionalJump(gx, node.condition, path \o <<1>>, label_then,
                                      IF label_else # "None" THEN label_else ELSE label_exit)
    IN  IF g1.err # "none" THEN g1
        ELSE IF node.else_branch # NoneNode THEN
          LET g2 == CgVisit(g1, node.else_branch, path \o <<3>>)
              g3 == Emit(Emit(g2, <<"GOTO", label_exit>>), <<"REM", label_then>>)
              g4 == CgVisit(g3, node.then_branch, path \o <<2>>)
          IN  IF g2.err # "none" THEN g2
              ELSE IF g4.err # "none" THEN g4
              ELSE Returning(Emit(g4, <<"REM", label_exit>>), "None")
        ELSE
          LET g3 == Emit(Emit(g1, <<"GOTO", label_exit>>), <<"REM", label_then>>)
              g4 == CgVisit(g3, node.then_branch, path \o <<2>>)
          IN  IF g4.err # "none" THEN g4
              ELSE Returning(Emit(g4, <<"REM", label_exit>>), "None")

\* _visit_WhileLoopNode
CgVisitWhileLoopNode(g, node, path) ==
    LET gc == NewLabel(g)
        label_cond == gc.place
        gb == NewLabel(gc)
        label_body == gb.place
        gx == NewLabel(gb)
        label_exit == gx.place
        g1 == GenerateConditionalJump(Emit(gx, <<"REM", label_cond>>), node.condition,
                                      path \o <<1>>, label_body, label_exit)
        g2 == CgVisit(Emit(g1, <<"REM", label_body>>), node.body, path \o <<2>>)
    IN  IF g1.err # "none" THEN g1
        ELSE IF g2.err # "none" THEN g2
        ELSE Returning(Emit(Emit(g2, <<"GOTO", label_cond>>), <<"REM", label_exit>>), "None")

\* _visit_DoUntilLoopNode: the condition is evaluated by _visit, not by the jump generator.
CgVisitDoUntilLoopNode(g, node, path) ==
    LET gb == NewLabel(g)
        label_body == gb.place
        gx == NewLabel(gb)
        g1 == CgVisit(Emit(gx, <<"REM", label_body>>), node.body, path \o <<1>>)
        g2 == CgVisit(g1, node.condition, path \o <<2>>)
    IN  IF g1.err # "none" THEN g1
        ELSE IF g2.err # "none" THEN g2
        ELSE Returning(Emit(g2, <<"IF", g2.place, "=", "0", "THEN", label_body>>), "None")

\* _generate_conditional_jump (negate is never passed by a caller and stays False)
GenerateConditionalJump(g, condition_node, path, label_true, label_false) ==
    IF g.err # "none" THEN g
    ELSE IF condition_node.value.t = "ParenTermNode" THEN
      LET inner_node == condition_node.value.term
          ipath == path \o <<1, 1>>
      IN  IF inner_node.t = "UnaryOperationNode" /\ inner_node.operator = "not"
          THEN GenerateConditionalJump(g, inner_node.operand, ipath \o <<1>>,
                                       label_false, label_true)
          ELSE IF inner_node.t = "BinaryOperationNode" THEN
            LET op_ == inner_node.operator
            IN  IF op_ = "and" THEN
                  LET gl == NewLabel(g)
                      label_second_cond == gl.place
                      g1 == GenerateConditionalJump(gl, inner_node.left_operand, ipath \o <<1>>,
                                                    label_second_cond, label_false)
                  IN  IF g1.err # "none" THEN g1
                      ELSE GenerateConditionalJump(Emit(g1, <<"REM", label_second_cond>>),
                                                   inner_node.right_operand, ipath \o <<2>>,
                                                   label_true, label_false)
                ELSE IF op_ = "or" THEN
                  LET gl == NewLabel(g)
                      label_second_cond == gl.place
                      g1 == GenerateConditionalJump(gl, inner_node.left_operand, ipath \o <<1>>,
                                                    label_true, label_second_cond)
                  IN  IF g1.err # "none" THEN g1
                      ELSE GenerateConditionalJump(Emit(g1, <<"REM", label_second_cond>>),
                                                   inner_node.right_operand, ipath \o <<2>>,
                                                   label_true, label_false)
                ELSE IF op_ \in {"eq", ">"} THEN
                  LET g1 == CgVisit(g, inner_node.left_operand, ipath \o <<1>>)
                      g2 == CgVisit(g1, inner_node.right_operand, ipath \o <<2>>)
                      op_symbol == IF op_ = "eq" THEN "=" ELSE ">"
                  IN  IF g2.err # "none" THEN g2
                      ELSE Returning(Emit(g2, <<"IF", g1.place, op_symbol, g2.place,
                                                "THEN", label_true>>), "None")
                ELSE CgRaise(g, "CodeGenError")
          ELSE CgRaise(g, "CodeGenError")
    ELSE IF condition_node.value.t = "AtomNode" THEN
      LET g1 == CgVisit(g, condition_node.value, path \o <<1>>)
      IN  IF g1.err # "none" THEN g1
          ELSE Returning(Emit(g1, <<"IF", g1.place, ">", "0", "THEN", label_true>>), "None")
    ELSE CgRaise(g, "CodeGenError")

\* _visit_ProcedureCallNode / _visit_FunctionCallNode
CgVisitCallNode(g, node, path, kind) ==
    LET r  == CgVisitArgs(g, node.arguments.arguments, 1, path \o <<2>>, <<>>)
        g1 == r.g
        g2 == NewTemp(g1)
    IN  IF g1.err # "none" THEN g1
        ELSE IF path \o <<1>> \notin DOMAIN g1.annot THEN CgRaise(g1, "CodeGenError")
        ELSE IF g1.annot[path \o <<1>>].kind # kind THEN CgRaise(g1, "CodeGenError")
        ELSE Returning(Emit(g2, <<g2.place, "=", "CALL", g1.annot[path \o <<1>>].unique_name, "(">>
                                  \o r.places \o <<")">>),
                       IF kind = "func" THEN g2.place ELSE "None")

\* _visit: dispatch on the node's class; _generic_visit raises for a class
\* without a visitor.
CgVisit(g, node, path) ==
    IF g.err # "none" THEN g
    ELSE IF node = NoneNode THEN Returning(g, "None")
    ELSE IF node.t = "ProgramNode" THEN CgVisit(g, node.main, path \o <<4>>)
    ELSE IF node.t = "MainProgNode" THEN CgVisit(g, node.algorithm, path \o <<2>>)
    ELSE IF node.t = "BodyNode" THEN CgVisit(g, node.algorithm, path \o <<2>>)
    ELSE IF node.t = "AlgorithmNode" THEN CgVisitSeq(g, node.instructions, 1, path)
    ELSE IF node.t = "HaltNode" THEN Returning(Emit(g, <<"STOP">>), "None")
    ELSE IF node.t = "PrintNode" THEN CgVisitPrintNode(g, node, path)
    ELSE IF node.t = "AssignmentNode" THEN CgVisitAssignmentNode(g, node, path)
    ELSE IF node.t = "AtomNode" THEN CgVisitAtomNode(g, node, path)
    ELSE IF node.t = "TermNode" THEN CgVisit(g, node.value, path \o <<1>>)
    ELSE IF node.t = "ParenTermNode" THEN CgVisit(g, node.term, path \o <<1>>)
    ELSE IF node.t = "UnaryOperationNode" THEN CgVisitUnaryOperationNode(g, node, path)
    ELSE IF node.t = "BinaryOperationNode" THEN CgVisitBinaryOperationNode(g, node, path)
    ELSE IF node.t = "IfBranchNode" THEN CgVisitIfBranchNode(g, node, path)
    ELSE IF node.t = "WhileLoopNode" THEN CgVisitWhileLoopNode(g, node, path)
    ELSE IF node.t = "DoUntilLoopNode" THEN CgVisitDoUntilLoopNode(g, node, path)
    ELSE IF node.t = "ProcedureCallNode" THEN CgVisitCallNode(g, node, path, "proc")
    ELSE IF node.t = "FunctionCallNode" THEN CgVisitCallNode(g, node, path, "func")
    ELSE IF node.t = "VarNode" THEN CgVisitVarNode(g, node, path)
    ELSE IF node.t \in {"InputNode", "VariableDeclsNode", "ProcDefsNode", "FuncDefsNode",
                        "ProcedureDefNode", "FunctionDefNode", "Max3Node"}
    THEN Returning(g, "None")
    ELSE CgRaise(g, "CodeGenError")

\* generate: reset the counters and the code, then visit ast.main only.
Generate(g, ast) ==
    CgVisit([g EXCEPT !.ir_code = <<>>, !.temp_counter = 0, !.label_counter = 0],
            ast.main, <<4>>)

-----------------------------------------------------------------------------
(* Spec: one SymbolTable driven through its public operations.             *)

NoOp == [kind |-> "none", name |-> "", err |-> "none", result |-> None, popped |-> {}]

IdleCompile ==
    /\ prog = None
    /\ pc = "idle"
    /\ az = None
    /\ cg = None
    /\ store = EmptyFrame
    /\ ip = 0
    /\ visited = {}

IdleInline ==
    /\ inliner = None
    /\ ir_code = None
    /\ inlined_ir = None
    /\ raised = "none"

Init ==
    /\ symtab = NewTable("v")
    /\ op = NoOp
    /\ issued = {}
    /\ nissued = 0
    /\ returned = <<>>
    /\ IdleCompile
    /\ IdleInline

DoEnterScope ==
    /\ Len(symtab.scopes) < MaxDepth
    /\ symtab' = EnterScope(symtab, "Scope", <<>>)
    /\ op' = [NoOp EXCEPT !.kind = "enter"]
    /\ returned' = Append(returned, {})
    /\ UNCHANGED <<issued, nissued, compileVars, inlineVars>>

DoExitScope ==
    LET r == ExitScope(symtab) IN
    /\ symtab' = r.st
    /\ op' = [NoOp EXCEPT !.kind = "exit", !.err = r.err, !.popped = DOMAIN r.popped]
    /\ returned' = IF r.err = "none" THEN SubSeq(returned, 1, Len(returned) - 1) ELSE returned
    /\ UNCHANGED <<issued, nissued, compileVars, inlineVars>>

DoDeclare ==
    \E name \in Names, kind \in Kinds :
      LET r == Declare(symtab, name, kind, DeclTypeOf(kind), <<>>) IN
      /\ nissued < MaxDecls
      /\ symtab' = r.st
      /\ op' = [NoOp EXCEPT !.kind = "declare", !.name = name, !.err = r.err, !.result = r.info]
      /\ issued' = IF r.err = "none" THEN issued \cup {r.info.unique_name} ELSE issued
      /\ nissued' = IF r.err = "none" THEN nissued + 1 ELSE nissued
      /\ returned' = IF r.err = "none"
                     THEN [returned EXCEPT ![Len(returned)] = @ \cup {r.info}]
                     ELSE returned
      /\ UNCHANGED <<compileVars, inlineVars>>

DoLookup ==
    \E name \in Names :
      /\ op' = [NoOp EXCEPT !.kind = "lookup", !.name = name, !.result = Lookup(symtab, name)]
      /\ UNCHANGED <<symtab, issued, nissued, returned, compileVars, inlineVars>>

DoCheckGlobalClashes ==
    /\ op' = [NoOp EXCEPT !.kind = "check",
                          !.err = IF GlobalNameClashes(symtab) # {} THEN "GlobalNameClash" ELSE "none"]
    /\ UNCHANGED <<symtab, issued, nissued, returned, compileVars, inlineVars>>

Next ==
    \/ DoEnterScope
    \/ DoExitScope
    \/ DoDeclare
    \/ DoLookup
    \/ DoCheckGlobalClashes

Spec == Init /\ [][Next]_vars

-----------------------------------------------------------------------------
(* Execution of the IR (spec section 6 and the lowering rules of 4.3): IF   *)
(* jumps to its label when its comparison holds and otherwise falls through *)
(* to the next line, GOTO jumps, REM is a label and does nothing, a         *)
(* comparison stored into a place yields 1 for true and 0 for false.        *)

MaxLit == 1
MaxVal == 2

Literals == {ToString(n) : n \in 0..MaxLit}
LitValue(tok) == CHOOSE n \in 0..MaxLit : ToString(n) = tok

\* The value of an operand: a literal, or the content of a place.
Readable(st, tok) == tok \in Literals \/ tok \in DOMAIN st
ValueOf(st, tok) == IF tok \in Literals THEN LitValue(tok) ELSE st[tok]

\* op in {+,-,*,/,=,>}
Apply(l, op_symbol, r) ==
    IF op_symbol = "+" THEN l + r
    ELSE IF op_symbol = "-" THEN l - r
    ELSE IF op_symbol = "*" THEN l * r
    ELSE IF op_symbol = "/" THEN (IF r = 0 THEN 0 ELSE l \div r)
    ELSE IF op_symbol = "=" THEN (IF l = r THEN 1 ELSE 0)
    ELSE (IF l > r THEN 1 ELSE 0)

\* The lines REM <label> of the code.
LabelLines(ir, label) == {i \in 1..Len(ir) : ir[i] = <<"REM", label>>}

\* The string literals a PRINT line can carry.
Strings == {"then", "else", "body", "after"}
Quoted  == {"\"" \o str \o "\"" : str \in Strings}

\* The operands an instruction reads.
Reads(instr) ==
    IF instr[1] = "IF" THEN {instr[2], instr[4]}
    ELSE IF instr[1] = "PRINT" THEN (IF instr[2] \in Quoted THEN {} ELSE {instr[2]})
    ELSE IF instr[1] \in {"STOP", "GOTO", "REM", "RETURN"} THEN {}
    ELSE IF Len(instr) = 3 THEN {instr[3]}
    ELSE IF Len(instr) = 4 THEN {instr[4]}
    ELSE IF Len(instr) = 5 THEN {instr[3], instr[5]}
    ELSE {}

\* One instruction: the next ip ("next"), the new store, or a stop.
\* how is "go" (continue at next), "halt" (STOP) or "abort" (a jump to a label
\* no REM defines, a read of a place never written, a CALL, a value out of range).
ExecInstr(ir, st, i) ==
    LET instr == ir[i]
        stay  == [how |-> "go", next |-> i + 1, store |-> st]
        abort == [how |-> "abort", next |-> i, store |-> st]
        jump(label) == IF LabelLines(ir, label) = {} THEN abort
                       ELSE [stay EXCEPT !.next = CHOOSE k \in LabelLines(ir, label) :
                                                    \A o \in LabelLines(ir, label) : k <= o]
        write(place, v) == IF v > MaxVal \/ v < -MaxVal THEN abort
                           ELSE [stay EXCEPT !.store = Put(st, place, v)]
    IN  IF \E tok \in Reads(instr) : ~Readable(st, tok) THEN abort
        ELSE IF instr[1] = "STOP" THEN [stay EXCEPT !.how = "halt"]
        ELSE IF instr[1] \in {"PRINT", "REM"} THEN stay
        ELSE IF instr[1] = "GOTO" THEN jump(instr[2])
        ELSE IF instr[1] = "IF" THEN
          IF Apply(ValueOf(st, instr[2]), instr[3], ValueOf(st, instr[4])) = 1
          THEN jump(instr[6]) ELSE stay
        ELSE IF Len(instr) = 3 THEN write(instr[1], ValueOf(st, instr[3]))
        ELSE IF Len(instr) = 4 THEN write(instr[1], 0 - ValueOf(st, instr[4]))
        ELSE IF Len(instr) = 5 THEN
          write(instr[1], Apply(ValueOf(st, instr[3]), instr[4], ValueOf(st, instr[5])))
        ELSE abort

-----------------------------------------------------------------------------
(* The programs SpecCompile compiles.                                      *)

Atom(name) == AtomNode(VarNode(name))
Lit(v)     == AtomNode(IntValue(v))
AtomTerm(name) == TermNode(Atom(name))
LitTerm(v)     == TermNode(Lit(v))
Bin(l, o, r) == TermNode(ParenTermNode(BinaryOperationNode(l, o, r)))
Un(o, x)     == TermNode(ParenTermNode(UnaryOperationNode(o, x)))
Algo(instructions) == AlgorithmNode(instructions)
Say(s) == PrintNode(StrValue(s))

\* proc p(x) { local {y} body } and func f(x) { local {} body ; return ret }
ProcP(name, body) ==
    ProcedureDefNode(VarNode(name), Max3Node(<<VarNode("x")>>),
                     BodyNode(Max3Node(<<VarNode("y")>>), Algo(body)))
FuncF(name, body, ret) ==
    FunctionDefNode(VarNode(name), Max3Node(<<VarNode("x")>>),
                    BodyNode(Max3Node(<<>>), Algo(body)), ret)

Program(globals, procs, funcs, main_body) ==
    ProgramNode(VariableDeclsNode([i \in 1..Len(globals) |-> VarNode(globals[i])]),
                ProcDefsNode(procs), FuncDefsNode(funcs),
                MainProgNode(VariableDeclsNode(<<VarNode("m")>>), Algo(main_body)))

\* The ways a statement can use the name n.
UsesOf(n) ==
    { PrintNode(Atom(n)),
      AssignmentNode(VarNode(n), Lit(0)),
      AssignmentNode(VarNode("a"), Atom(n)),
      AssignmentNode(VarNode("a"), Bin(AtomTerm(n), "plus", LitTerm(1)).value),
      AssignmentNode(VarNode("a"), FunctionCallNode(VarNode(n), InputNode(<<Lit(0)>>))),
      AssignmentNode(VarNode("a"), FunctionCallNode(VarNode("f"), InputNode(<<Atom(n)>>))),
      ProcedureCallNode(VarNode(n), InputNode(<<Lit(0)>>)),
      ProcedureCallNode(VarNode("p"), InputNode(<<Atom(n)>>)) }

DefaultProcs == <<ProcP("p", <<HaltNode>>)>>
DefaultFuncs == <<FuncF("f", <<HaltNode>>, Atom("x"))>>

\* a: global variable, m: local of main, p: procedure, f: function, u: undeclared,
\* x: parameter and y: local of p and f.
UsePrograms ==
    { Program(<<"a", "b">>, DefaultProcs, DefaultFuncs, <<s>>) :
        s \in UNION {UsesOf(n) : n \in {"a", "m", "p", "f", "u"}} }
    \cup
    { Program(<<"a", "b">>, <<ProcP("p", <<s>>)>>, DefaultFuncs, <<HaltNode>>) :
        s \in UNION {UsesOf(n) : n \in {"x", "y"}} }
    \cup
    { Program(<<"a", "b">>, DefaultProcs, <<FuncF("f", <<s>>, r)>>, <<HaltNode>>) :
        s \in UsesOf("x"), r \in {Atom(n) : n \in {"x", "a", "p", "f", "u"}} \cup {Lit(0)} }

\* Programs whose global names are shared between a variable, a procedure and a function.
ClashPrograms ==
    { Program(g, <<ProcP(pn, <<HaltNode>>)>>, <<FuncF(fn, <<HaltNode>>, Atom("x"))>>, <<HaltNode>>) :
        g \in {<<"a">>, <<"a", "f">>, <<"p", "a">>, <<"a", "a">>}, pn \in {"p", "f"}, fn \in {"f"} }

\* Conditions over the comparisons (a > 0), (b > 0), (c eq 1).
RelA == Bin(AtomTerm("a"), ">", LitTerm(0))
RelB == Bin(AtomTerm("b"), ">", LitTerm(0))
RelC == Bin(AtomTerm("c"), "eq", LitTerm(1))
Conds ==
    LET LeftConds  == {RelA, Un("not", RelA), Bin(RelA, "and", RelC), Bin(RelA, "or", RelC)}
        RightConds == {RelB, Un("not", RelB)}
    IN  {RelA, Un("not", RelA)}
        \cup {Bin(l, o, r) : l \in LeftConds, o \in {"and", "or"}, r \in RightConds}
        \cup {Un("not", Bin(RelA, o, RelB)) : o \in {"and", "or"}}

ControlStatements ==
    UNION { { IfBranchNode(c, Algo(<<Say("then")>>), NoneNode),
              IfBranchNode(c, Algo(<<Say("then")>>), Algo(<<Say("else")>>)),
              WhileLoopNode(c, Algo(<<Say("body"), AssignmentNode(VarNode("a"), Lit(0))>>)),
              DoUntilLoopNode(Algo(<<Say("body"), AssignmentNode(VarNode("a"), Lit(1))>>), c) }
            : c \in Conds }

ControlPrograms ==
    { Program(<<"a", "b", "c">>, <<>>, <<>>, <<s, Say("after")>>) : s \in ControlStatements }

\* Expression trees: the operands over the variable v (numeric ones, boolean
\* ones, ill-typed ones), every unary operator over them and every binary
\* operator over a pair of them.
Operands(v) ==
    { AtomTerm(v), LitTerm(0), Un("neg", AtomTerm(v)), Bin(AtomTerm(v), "plus", LitTerm(1)),
      Bin(AtomTerm(v), ">", LitTerm(0)), Bin(AtomTerm(v), "eq", LitTerm(1)),
      Un("not", AtomTerm(v)), Bin(AtomTerm(v), "and", LitTerm(0)) }
Exprs ==
    LET UnaryOperators  == {"neg", "not"}
        BinaryOperators == {"plus", "minus", "mult", "div", "eq", ">", "and", "or"}
    IN  Operands("a")
        \cup {Un(o, x) : o \in UnaryOperators, x \in Operands("a")}
        \cup {Bin(l, o, r) : l \in Operands("a"), o \in BinaryOperators, r \in Operands("b")}

\* An expression as the condition of an if, and as the right-hand side of an
\* assignment to a global, to a local of main.
ExprPrograms ==
    { Program(<<"a", "b", "c">>, <<>>, <<>>,
              <<IfBranchNode(e, Algo(<<Say("then")>>), NoneNode), Say("after")>>) : e \in Exprs }
    \cup
    { Program(<<"a", "b", "c">>, <<>>, <<>>, <<AssignmentNode(VarNode(v), e.value)>>) :
        v \in {"a", "m"}, e \in {x \in Exprs : x.value.t = "ParenTermNode"} }
    \cup
    { Program(<<"a", "b", "c">>, <<ProcP("p", <<AssignmentNode(VarNode(v), e.value)>>)>>,
              DefaultFuncs, <<HaltNode>>) :
        v \in {"x", "y"}, e \in {x \in Operands("a") \cup Conds : x.value.t = "ParenTermNode"} }

\* A statement at the top of main, nested in the branches of an if and in the
\* body of a loop, and in the body of a procedure and of a function.
Nest(where, st) ==
    IF where = "proc" THEN Program(<<"a", "b", "c">>, <<ProcP("p", <<st>>)>>, DefaultFuncs, <<HaltNode>>)
    ELSE IF where = "func"
      THEN Program(<<"a", "b", "c">>, DefaultProcs, <<FuncF("f", <<st>>, Atom("x"))>>, <<HaltNode>>)
    ELSE Program(<<"a", "b", "c">>, <<>>, <<>>,
           << IF where = "then" THEN IfBranchNode(RelA, Algo(<<st>>), NoneNode)
              ELSE IF where = "else" THEN IfBranchNode(RelA, Algo(<<Say("then")>>), Algo(<<st>>))
              ELSE IF where = "while" THEN WhileLoopNode(RelA, Algo(<<st>>))
              ELSE IF where = "do" THEN DoUntilLoopNode(Algo(<<st>>), RelA)
              ELSE st,
              Say("after") >>)

\* if, while and do-until over a numeric atom.
AtomCondStatements ==
    LET AtomConds == {AtomTerm("a"), LitTerm(0), LitTerm(1)} IN
    UNION { { IfBranchNode(c, Algo(<<Say("then")>>), NoneNode),
              IfBranchNode(c, Algo(<<Say("then")>>), Algo(<<Say("else")>>)),
              WhileLoopNode(c, Algo(<<Say("body")>>)),
              DoUntilLoopNode(Algo(<<Say("body")>>), c) } : c \in AtomConds }
AtomCondPrograms ==
    LET Nestings == {"main", "then", "else", "while", "do", "proc", "func"}
    IN  {Nest(w, st) : w \in Nestings, st \in AtomCondStatements}

\* A procedure p or a function f with one or two parameters and up to two
\* locals, the locals sharing a name with the parameters or not.
ShadowPrograms ==
    LET vars_(ns) == Max3Node([i \in 1..Len(ns) |-> VarNode(ns[i])])
        Params == {<<"x">>, <<"x", "y">>}
        Locals == {<<>>, <<"z">>, <<"x">>, <<"y">>, <<"z", "x">>, <<"x", "y">>, <<"y", "z">>}
    IN  { Program(<<"a">>,
                  <<ProcedureDefNode(VarNode("p"), vars_(ps), BodyNode(vars_(ls), Algo(<<HaltNode>>)))>>,
                  <<>>, <<HaltNode>>) : ps \in Params, ls \in Locals }
        \cup
        { Program(<<"a">>, <<>>,
                  <<FunctionDefNode(VarNode("f"), vars_(ps), BodyNode(vars_(ls), Algo(<<HaltNode>>)),
                                    Atom("x"))>>,
                  <<HaltNode>>) : ps \in Params, ls \in Locals }

\* Loops whose condition changes while they run: a do-until that counts a up
\* to 2 and a while that counts a down to 0, each followed by a print.
LoopPrograms ==
    LET Step(o) == AssignmentNode(VarNode("a"), Bin(AtomTerm("a"), o, LitTerm(1)).value)
    IN  { Program(<<"a", "b", "c">>, <<>>, <<>>, <<s, Say("after")>>) :
            s \in { DoUntilLoopNode(Algo(<<Say("body"), Step("plus")>>),
                                    Bin(AtomTerm("a"), ">", LitTerm(1))),
                    WhileLoopNode(RelA, Algo(<<Say("body"), Step("minus")>>)) } }

Programs ==
    UsePrograms \cup ClashPrograms \cup ControlPrograms \cup ExprPrograms \cup AtomCondPrograms
      \cup ShadowPrograms \cup LoopPrograms

-----------------------------------------------------------------------------
(* SpecCompile: analyze, generate, execute.                                *)

IdleTable ==
    /\ symtab = NewTable("v")
    /\ op = NoOp
    /\ issued = {}
    /\ nissued = 0
    /\ returned = <<>>

InitCompile ==
    /\ IdleTable
    /\ prog \in Programs
    /\ pc = "parsed"
    /\ az = None
    /\ cg = None
    /\ store = EmptyFrame
    /\ ip = 0
    /\ visited = {}
    /\ IdleInline

\* SemanticAnalyzer().analyze(ast)
DoAnalyze ==
    /\ pc = "parsed"
    /\ az' = Analyze(prog)
    /\ pc' = IF az'.err = "none" THEN "analyzed" ELSE "rejected"
    /\ UNCHANGED <<prog, cg, store, ip, visited, tableVars, inlineVars>>

\* CodeGenerator(symbol_table, analyzer.node_types).generate(ast)
DoGenerate ==
    /\ pc = "analyzed"
    /\ cg' = Generate(NewCodeGenerator(az), prog)
    /\ pc' = IF cg'.err = "none" THEN "generated" ELSE "cgfailed"
    /\ UNCHANGED <<prog, az, store, ip, visited, tableVars, inlineVars>>

\* The places of the declared variables, with any initial values.
VarPlaces == {az.annot[p].unique_name : p \in DOMAIN az.annot}

DoStartRun ==
    /\ pc = "generated"
    /\ \A i \in 1..Len(cg.ir_code) : "CALL" \notin {cg.ir_code[i][k] : k \in 1..Len(cg.ir_code[i])}
    /\ store' \in [VarPlaces -> 0..MaxLit]
    /\ ip' = 1
    /\ visited' = {}
    /\ pc' = "running"
    /\ UNCHANGED <<prog, az, cg, tableVars, inlineVars>>

DoStep ==
    /\ pc = "running"
    /\ IF ip > Len(cg.ir_code)
       THEN /\ pc' = "halted"
            /\ UNCHANGED <<store, ip, visited>>
       ELSE LET r == ExecInstr(cg.ir_code, store, ip) IN
            /\ store' = r.store
            /\ ip' = r.next
            /\ visited' = visited \cup {ip}
            /\ pc' = IF r.how = "go" THEN "running" ELSE IF r.how = "halt" THEN "halted" ELSE "aborted"
    /\ UNCHANGED <<prog, az, cg, tableVars, inlineVars>>

NextCompile ==
    \/ DoAnalyze
    \/ DoGenerate
    \/ DoStartRun
    \/ DoStep

SpecCompile == InitCompile /\ [][NextCompile]_vars

-----------------------------------------------------------------------------
(* The inliner (inline.py). An IR line is the sequence of its tokens: the   *)
(* line "t2 = CALL v_f_1(v_r_3, 5)" is <<"t2","=","CALL","v_f_1","(",       *)
(* "v_r_3","5",")">>. A regular expression of the source is the test that   *)
(* the tokens have the shape it describes, each name token being in the     *)
(* set of the names of its class.                                           *)

MaxNum == 4
MaxInlined == 3

\* t\d+, v_\w+_\d+ and L\d+
TempPattern   == {"t" \o ToString(n) : n \in 1..MaxNum}
UniquePattern == {"v_" \o b \o "_" \o ToString(n) : b \in {"f", "g", "h", "s", "a", "b", "r"}, n \in 1..MaxNum}
LabelPattern  == {"L" \o ToString(n) : n \in 1..MaxNum}

\* FunctionBodyInfo
FunctionBodyInfo(name, params, body_ir) == [name |-> name, params |-> params, body_ir |-> body_ir]

\* Inliner.__init__
NewInliner(function_bodies) == [function_bodies |-> function_bodies, inline_counter |-> 0]

\* rem_label_pattern: ^REM (L\d+)$
MatchRem(line) == Len(line) = 2 /\ line[1] = "REM" /\ line[2] \in LabelPattern
\* jump_pattern: ^(GOTO|IF .+ THEN) (L\d+)$
MatchJump(line) ==
    \/ Len(line) = 2 /\ line[1] = "GOTO" /\ line[2] \in LabelPattern
    \/ Len(line) >= 4 /\ line[1] = "IF" /\ line[Len(line) - 1] = "THEN" /\ line[Len(line)] \in LabelPattern
\* return_pattern: ^RETURN (t\d+|v_\w+_\d+)$
MatchReturn(line) ==
    Len(line) = 2 /\ line[1] = "RETURN" /\ line[2] \in TempPattern \cup UniquePattern
\* call_pattern: ^(t\d+|v_\w+_\d+) = CALL (v_\w+_\d+)\(([^)]*)\)$
MatchCall(line) ==
    /\ Len(line) >= 6
    /\ line[1] \in TempPattern \cup UniquePattern
    /\ line[2] = "=" /\ line[3] = "CALL"
    /\ line[4] \in UniquePattern
    /\ line[5] = "(" /\ line[Len(line)] = ")"
\* assignment_pattern: ^(v_\w+_\d+) = (t\d+)$
MatchAssignment(line) ==
    Len(line) = 3 /\ line[1] \in UniquePattern /\ line[2] = "=" /\ line[3] \in TempPattern

MakeLabelsSame(body, inline_id) == body

\* _make_labels_unique: the labels a REM line of the block defines get the
\* suffix; a jump to any other label is left as it is.
MakeLabelsUnique(body, inline_id) ==
    LET new_labels == {body[j][2] : j \in {k \in 1..Len(body) : MatchRem(body[k])}}
        Unique(label) == IF label \in new_labels
                         THEN label \o "_inline_" \o ToString(inline_id) ELSE label
    IN  [j \in 1..Len(body) |->
           IF MatchRem(body[j]) THEN <<"REM", Unique(body[j][2])>>
           ELSE IF MatchJump(body[j])
             THEN [body[j] EXCEPT ![Len(body[j])] = Unique(@)]
           ELSE body[j]]

\* _adapt_body: unique labels, then every line matching return_pattern
\* becomes an assignment to the return target, or is dropped without one.
AdaptBody(body_ir, return_target, inline_id) ==
    LET unique_body_ir == MakeLabelsUnique(body_ir, inline_id)
        NotReturn(line) == ~MatchReturn(line)
        kept == IF return_target = "None" THEN SelectSeq(unique_body_ir, NotReturn)
                ELSE unique_body_ir
    IN  [j \in 1..Len(kept) |->
           IF MatchReturn(kept[j]) THEN <<return_target, "=", kept[j][2]>> ELSE kept[j]]

ArgumentCheckSkipped(call_args, params) == FALSE
\* len(call_args) != len(func_info.params)
ArgumentCheckFails(call_args, params) == Len(call_args) # Len(params)

RECURSIVE InlineFrom(_, _, _, _)
\* The branch of inline_calls for a CALL of a callee of function_bodies.
InlineCallSite(inl, code, i, out) ==
    LET instruction == code[i]
        call_target_temp == instruction[1]
        func_info == inl.function_bodies[instruction[4]]
        call_args == SubSeq(instruction, 6, Len(instruction) - 1)
        has_return == \E j \in 1..Len(func_info.body_ir) : func_info.body_ir[j][1] = "RETURN"
        skip_next_instruction ==
            /\ has_return
            /\ i + 1 <= Len(code)
            /\ MatchAssignment(code[i + 1])
            /\ code[i + 1][3] = call_target_temp
        actual_return_target ==
            IF ~has_return THEN "None"
            ELSE IF skip_next_instruction THEN code[i + 1][1]
            ELSE call_target_temp
        inl1 == [inl EXCEPT !.inline_counter = @ + 1]
        \* zip(func_info.params, call_args)
        param_assignments ==
            [j \in 1..(IF Len(call_args) < Len(func_info.params)
                       THEN Len(call_args) ELSE Len(func_info.params))
               |-> <<func_info.params[j], "=", call_args[j]>>]
    IN  IF ArgumentCheckFails(call_args, func_info.params)
        THEN [inliner |-> inl1, result |-> None, err |-> "ArgumentCountMismatch"]
        ELSE InlineFrom(inl1, code, IF skip_next_instruction THEN i + 2 ELSE i + 1,
                        out \o param_assignments
                            \o AdaptBody(func_info.body_ir, actual_return_target,
                                         inl1.inline_counter))

InlineFromSkippingAfterUnknown(inl, code, i, out) ==
    IF i > Len(code) THEN [inliner |-> inl, result |-> out, err |-> "none"]
    ELSE IF MatchCall(code[i]) /\ code[i][4] \in DOMAIN inl.function_bodies
      THEN InlineCallSite(inl, code, i, out)
    ELSE InlineFrom(inl, code, IF MatchCall(code[i]) THEN i + 2 ELSE i + 1, Append(out, code[i]))

\* The while loop of inline_calls from index i, out being inlined_ir.
InlineFrom(inl, code, i, out) ==
    IF i > Len(code) THEN [inliner |-> inl, result |-> out, err |-> "none"]
    ELSE IF MatchCall(code[i]) /\ code[i][4] \in DOMAIN inl.function_bodies
      THEN InlineCallSite(inl, code, i, out)
    ELSE InlineFrom(inl, code, i + 1, Append(out, code[i]))

\* inline_calls
InlineCalls(inl, code) == InlineFrom(inl, code, 1, <<>>)

-----------------------------------------------------------------------------
(* SpecInline: one Inliner, inline_calls over IR sequences.                *)

\* f(a): a function with two labels, a jump and two RETURN lines; g(b): a
\* procedure with one label; h(): a function returning a literal, with a jump
\* to a label its body does not define.
Registry ==
    LET f == FunctionBodyInfo("v_f_1", <<"v_a_2">>,
               << <<"REM", "L1">>, <<"t1", "=", "v_a_2", "+", "v_a_2">>,
                  <<"IF", "t1", ">", "0", "THEN", "L2">>, <<"RETURN", "t1">>,
                  <<"REM", "L2">>, <<"RETURN", "v_a_2">> >>)
        g == FunctionBodyInfo("v_g_3", <<"v_b_4">>,
               << <<"REM", "L1">>, <<"PRINT", "v_b_4">> >>)
        h == FunctionBodyInfo("v_h_2", <<>>,
               << <<"IF", "0", ">", "0", "THEN", "L3">>, <<"RETURN", "0">> >>)
    IN  [n \in {"v_f_1", "v_g_3", "v_h_2"} |->
           IF n = "v_f_1" THEN f ELSE IF n = "v_g_3" THEN g ELSE h]

\* A call and the instruction after it: nothing, the copy of the call's
\* target into a variable, another use of the target, the copy of another
\* temporary.
CallSites(target, variable, calls) ==
    { << <<target, "=", "CALL", c[1], "(">> \o c[2] \o <<")">> >> \o after :
        c \in calls,
        after \in { <<>>, << <<variable, "=", target>> >>, << <<"PRINT", target>> >>,
                    << <<variable, "=", "t4">> >> } }
\* Calls of f, g and h with the right number of arguments, of a callee the
\* registry does not have, and of f and g with a wrong number of arguments.
InputIRs ==
    LET KnownCalls   == { <<"v_f_1", <<"v_r_3">> >>, <<"v_g_3", <<"5">> >>, <<"v_h_2", <<>> >> }
        UnknownCalls == { <<"v_s_4", <<"5">> >> }
        WrongCalls   == { <<"v_f_1", <<"v_r_3", "5">> >>, <<"v_f_1", <<>> >>, <<"v_g_3", <<>> >> }
        first  == CallSites("t2", "v_r_1", KnownCalls \cup UnknownCalls \cup WrongCalls)
        second == CallSites("t3", "v_r_2", { <<"v_f_1", <<"5">> >>, <<"v_s_4", <<"5">> >>,
                                             <<"v_f_1", <<>> >> })
        head == << <<"v_r_3", "=", "5">> >>
        stop == << <<"REM", "L1">>, <<"STOP">> >>
    IN  {head \o stop}
        \cup {head \o s1 \o stop : s1 \in first}
        \cup {head \o s1 \o s2 \o stop : s1 \in first, s2 \in second}

InitInline ==
    /\ IdleTable
    /\ IdleCompile
    /\ inliner = NewInliner(Registry)
    /\ ir_code = None
    /\ inlined_ir = None
    /\ raised = "none"

\* inliner.inline_calls(code)
DoInlineCalls ==
    \E code \in InputIRs :
      /\ inliner.inline_counter < MaxInlined
      /\ inliner' = InlineCalls(inliner, code).inliner
      /\ ir_code' = code
      /\ inlined_ir' = InlineCalls(inliner, code).result
      /\ raised' = InlineCalls(inliner, code).err
      /\ UNCHANGED <<tableVars, compileVars>>

SpecInline == InitInline /\ [][DoInlineCalls]_vars

-----------------------------------------------------------------------------
(* Claims about the symbol table (checked under Spec).                     *)

\* The frames of the history that hold a declaration of name n.
FramesDeclaring(n) == {i \in 1..Len(returned) : \E s \in returned[i] : s.name = n}

\* What lookup(n) has to return according to the declarations made so far:
\* the SymbolInfo declare returned in the innermost open frame that declared n.
ExpectedLookup(n) ==
    IF FramesDeclaring(n) = {} THEN None
    ELSE CHOOSE s \in returned[Max(FramesDeclaring(n))] : s.name = n

\* C1: after a successful declare(n), lookup(n) in the same or a nested frame
\* returns the SymbolInfo declare returned; once the frame holding n is popped,
\* lookup(n) returns None unless a frame still on the stack declared n, and then
\* it returns that outer symbol.
C1_LookupReturnsInnermostDeclared ==
    /\ \A n \in Names : Lookup(symtab, n) = ExpectedLookup(n)
    /\ op.kind = "lookup" => op.result = ExpectedLookup(op.name)
    /\ (op.kind = "declare" /\ op.err = "none") => Lookup(symtab, op.name) = op.result

\* C1 witness: a frame holding x was popped and lookup now yields the x of the
\* global frame, which is a different symbol from the popped one.
C1_Witness ==
    /\ op.kind = "exit" /\ op.err = "none" /\ "x" \in op.popped
    /\ Len(symtab.scopes) = 1
    /\ Lookup(symtab, "x") \in returned[1]
    /\ symtab.name_counters["x"] >= 2

\* C2: any two successful declarations of one table receive different
\* unique_name strings.
C2_UniqueNamesPairwiseDistinct ==
    Cardinality(issued) = nissued

\* C2 witness: x was declared, its scope exited, and x declared again at the
\* same depth, while "x" and "x_1" have both been declared.
C2_Witness ==
    /\ op.kind = "declare" /\ op.err = "none" /\ op.name = "x"
    /\ symtab.name_counters["x"] >= 2
    /\ "x_1" \in DOMAIN symtab.name_counters
    /\ \A i \in 1..Len(symtab.scopes) - 1 : "x" \notin DOMAIN symtab.scopes[i]

\* C3: declare raises the duplicate-declaration error iff the name is a key of
\* the top frame; a name held only by lower frames is declared (shadowing).
C3_DuplicateIffInTopFrame ==
    [][ op'.kind = "declare" =>
          /\ op'.err = "DuplicateDeclaration"
               <=> ( symtab.scopes # <<>>
                     /\ op'.name \in DOMAIN symtab.scopes[Len(symtab.scopes)] )
          /\ ( symtab.scopes # <<>>
               /\ op'.name \notin DOMAIN symtab.scopes[Len(symtab.scopes)] )
               => op'.err = "none" /\ Lookup(symtab', op'.name) = op'.result
      ]_vars

\* C3 witness: a name of the global frame was declared again in a nested
\* frame, with another kind.
C3_Witness ==
    /\ op.kind = "declare" /\ op.err = "none"
    /\ Len(symtab.scopes) = 2
    /\ op.name \in DOMAIN symtab.scopes[1]
    /\ symtab.scopes[1][op.name].kind # op.result.kind

-----------------------------------------------------------------------------
(* Claims about analysis, generation and the generated code (SpecCompile). *)

\* Static scoping of the source program: the scopes of main, of each procedure
\* and of each function, with the nodes that are walked inside them.
NamesOf(variables) == {variables[i].name : i \in 1..Len(variables)}
ScopesOf(p) ==
    {[params |-> <<>>, locals |-> p.main.locals.variables, nodes |-> {p.main.algorithm}]}
    \cup {[params |-> d.params.variables, locals |-> d.body.locals.variables,
           nodes |-> {d.body.algorithm}] :
            d \in {p.procs.procedures[j] : j \in 1..Len(p.procs.procedures)}}
    \cup {[params |-> d.params.variables, locals |-> d.body.locals.variables,
           nodes |-> {d.body.algorithm, d.return_atom}] :
            d \in {p.funcs.functions[j] : j \in 1..Len(p.funcs.functions)}}

GlobalVarNames(p) == NamesOf(p.globals.variables)
ProcNames(p) == {p.procs.procedures[j].name.name : j \in 1..Len(p.procs.procedures)}
FuncNames(p) == {p.funcs.functions[j].name.name : j \in 1..Len(p.funcs.functions)}

ResolvedKind(p, sc, n) ==
    IF n \in NamesOf(sc.locals) THEN "var"
    ELSE IF n \in NamesOf(sc.params) THEN "param"
    ELSE IF n \in GlobalVarNames(p) THEN "var"
    ELSE IF n \in ProcNames(p) THEN "proc"
    ELSE IF n \in FuncNames(p) THEN "func"
    ELSE "undeclared"

\* The uses of names inside a node: as a variable reference, as the target of a
\* function call, as the target of a procedure call.
RECURSIVE UsesIn(_)
UsesIn(n) ==
    IF n.t = "AtomNode" THEN
      (IF n.value.t = "VarNode" THEN {[name |-> n.value.name, use |-> "var"]} ELSE {})
    ELSE IF n.t = "TermNode" THEN UsesIn(n.value)
    ELSE IF n.t = "ParenTermNode" THEN UsesIn(n.term)
    ELSE IF n.t = "UnaryOperationNode" THEN UsesIn(n.operand)
    ELSE IF n.t = "BinaryOperationNode" THEN UsesIn(n.left_operand) \cup UsesIn(n.right_operand)
    ELSE IF n.t \in {"FunctionCallNode", "ProcedureCallNode"} THEN
      {[name |-> n.name.name, use |-> IF n.t = "FunctionCallNode" THEN "func" ELSE "proc"]}
      \cup UNION {UsesIn(n.arguments.arguments[i]) : i \in 1..Len(n.arguments.arguments)}
    ELSE IF n.t = "PrintNode" THEN (IF n.output.t = "str" THEN {} ELSE UsesIn(n.output))
    ELSE IF n.t = "AssignmentNode" THEN
      {[name |-> n.variable.name, use |-> "var"]} \cup UsesIn(n.rhs)
    ELSE IF n.t = "AlgorithmNode" THEN
      UNION {UsesIn(n.instructions[i]) : i \in 1..Len(n.instructions)}
    ELSE IF n.t = "IfBranchNode" THEN
      UsesIn(n.condition) \cup UsesIn(n.then_branch) \cup UsesIn(n.else_branch)
    ELSE IF n.t = "WhileLoopNode" THEN UsesIn(n.condition) \cup UsesIn(n.body)
    ELSE IF n.t = "DoUntilLoopNode" THEN UsesIn(n.body) \cup UsesIn(n.condition)
    ELSE {}

\* The uses of a program, each with the kind its name resolves to.
ResolvedUses(p) ==
    UNION {{[name |-> u.name, use |-> u.use, kind |-> ResolvedKind(p, sc, u.name)] :
              u \in UNION {UsesIn(n) : n \in sc.nodes}} : sc \in ScopesOf(p)}

Analyzed == pc # "parsed"
Ran      == pc \in {"running", "halted", "aborted"}

\* The value of a source condition under the current values of the variables.
UniqueOf(name) == (CHOOSE q \in DOMAIN az.annot : az.annot[q].name = name)
VarValue(name) == store[az.annot[UniqueOf(name)].unique_name]
RECURSIVE EvalTerm(_)
EvalTerm(n) ==
    IF n.t = "AtomNode" THEN (IF n.value.t = "int" THEN n.value.v ELSE VarValue(n.value.name))
    ELSE IF n.t = "TermNode" THEN EvalTerm(n.value)
    ELSE IF n.t = "ParenTermNode" THEN EvalTerm(n.term)
    ELSE IF n.t = "UnaryOperationNode" THEN
      (IF n.operator = "not" THEN 1 - EvalTerm(n.operand) ELSE 0 - EvalTerm(n.operand))
    ELSE IF n.operator \in {"plus", "minus", "mult", "div"} THEN
      Apply(EvalTerm(n.left_operand), OpMap[n.operator], EvalTerm(n.right_operand))
    ELSE IF n.operator = "and" THEN
      (IF EvalTerm(n.left_operand) = 1 THEN EvalTerm(n.right_operand) ELSE 0)
    ELSE IF n.operator = "or" THEN
      (IF EvalTerm(n.left_operand) = 1 THEN 1 ELSE EvalTerm(n.right_operand))
    ELSE IF n.operator = "eq" THEN
      (IF EvalTerm(n.left_operand) = EvalTerm(n.right_operand) THEN 1 ELSE 0)
    ELSE (IF EvalTerm(n.left_operand) > EvalTerm(n.right_operand) THEN 1 ELSE 0)

\* The first statement of main is an if whose condition is A <o> B; the lines
\* of B's evaluation are those that read b, the variable only B mentions.
FirstStatement == prog.main.algorithm.instructions[1]
IfOn(o) ==
    /\ FirstStatement.t = "IfBranchNode"
    /\ FirstStatement.condition.value.t = "ParenTermNode"
    /\ FirstStatement.condition.value.term.t = "BinaryOperationNode"
    /\ FirstStatement.condition.value.term.operator = o
OperandA == FirstStatement.condition.value.term.left_operand
PlacesOf(name) == {az.annot[q].unique_name : q \in {r \in DOMAIN az.annot : az.annot[r].name = name}}
LinesOfB ==
    {i \in 1..Len(cg.ir_code) : PlacesOf("b") \cap Reads(cg.ir_code[i]) # {}}

\* C4: code generation never raises CodeGenError on a program that semantic
\* analysis accepted, whatever the shape of the conditions of its if, while
\* and do-until statements.
C4_NoCodeGenErrorOnAccepted == pc # "cgfailed"

\* C5: in the code of if (A and B), an execution in which A is false executes
\* no line of B's evaluation.
C5_AndShortCircuit ==
    (Ran /\ IfOn("and") /\ EvalTerm(OperandA) = 0) => visited \cap LinesOfB = {}

\* C6: in the code of if (A or B), an execution in which A is true executes no
\* line of B's evaluation.
C6_OrShortCircuit ==
    (Ran /\ IfOn("or") /\ EvalTerm(OperandA) = 1) => visited \cap LinesOfB = {}

\* C7: the generated code of a program that defines a function contains a
\* RETURN line for the function's return atom.
C7_FunctionBodiesGenerated ==
    (pc = "generated" /\ FuncNames(prog) # {}) =>
        \E i \in 1..Len(cg.ir_code) : cg.ir_code[i][1] = "RETURN"

\* C8: analysis of a program in which a global variable, a procedure and a
\* function share a name fails with the global-name-clash error raised by
\* check_no_global_name_clashes.
SharedGlobalNames(p) ==
    (GlobalVarNames(p) \cap ProcNames(p)) \cup (GlobalVarNames(p) \cap FuncNames(p))
    \cup (ProcNames(p) \cap FuncNames(p))
C8_GlobalClashReported ==
    (Analyzed /\ SharedGlobalNames(prog) # {}) => az.err = "GlobalNameClash"

\* C9: analysis of a program that uses the name of a procedure or function as
\* a variable reference fails with a kind-mismatch error.
C9_VariableUseOfProcOrFuncFails ==
    (Analyzed /\ \E u \in ResolvedUses(prog) : u.use = "var" /\ u.kind \in {"proc", "func"})
        => az.err = "KindMismatch"

\* C10: analysis fails when a used name is not declared in any open scope, and
\* when the target of a call resolves to a symbol that is not a function for a
\* function call, not a procedure for a procedure call.
BadUse(u) ==
    \/ u.kind = "undeclared"
    \/ u.use = "func" /\ u.kind # "func"
    \/ u.use = "proc" /\ u.kind # "proc"
C10_UndeclaredAndWrongKindCallsFail ==
    (Analyzed /\ \E u \in ResolvedUses(prog) : BadUse(u))
        => az.err \in {"UndeclaredIdentifier", "KindMismatch"}
C10_Witness ==
    /\ pc = "rejected"
    /\ az.err = "KindMismatch"
    /\ \E u \in ResolvedUses(prog) : u.use = "proc" /\ u.kind = "func"
    /\ \A u \in ResolvedUses(prog) : u.kind # "undeclared"

\* The two-type rule table: the type of an expression tree, "error" when an
\* operator is applied to an operand of the other type.
RECURSIVE TypeOf(_)
TypeOf(n) ==
    IF n.t = "AtomNode" THEN "numeric"
    ELSE IF n.t = "TermNode" THEN TypeOf(n.value)
    ELSE IF n.t = "ParenTermNode" THEN TypeOf(n.term)
    ELSE IF n.t = "UnaryOperationNode" THEN
      (IF n.operator = "neg" /\ TypeOf(n.operand) = "numeric" THEN "numeric"
       ELSE IF n.operator = "not" /\ TypeOf(n.operand) = "boolean" THEN "boolean"
       ELSE "error")
    ELSE IF n.operator \in {"plus", "minus", "mult", "div"} THEN
      (IF TypeOf(n.left_operand) = "numeric" /\ TypeOf(n.right_operand) = "numeric"
       THEN "numeric" ELSE "error")
    ELSE IF n.operator \in {"eq", ">"} THEN
      (IF TypeOf(n.left_operand) = "numeric" /\ TypeOf(n.right_operand) = "numeric"
       THEN "boolean" ELSE "error")
    ELSE
      (IF TypeOf(n.left_operand) = "boolean" /\ TypeOf(n.right_operand) = "boolean"
       THEN "boolean" ELSE "error")

\* The expression of the first statement of main when it is the condition of
\* an if or the right-hand side of an assignment, with the path of the node
\* whose type the analyzer records (an atom, or the operation inside the
\* parentheses).
HasExpr ==
    /\ \/ FirstStatement.t = "IfBranchNode"
       \/ FirstStatement.t = "AssignmentNode" /\ FirstStatement.rhs.t = "ParenTermNode"
    /\ \A u \in ResolvedUses(prog) : u.use = "var" /\ u.kind \in {"var", "param"}
TheExpr ==
    IF FirstStatement.t = "IfBranchNode" THEN FirstStatement.condition ELSE FirstStatement.rhs
TypedPath ==
    IF FirstStatement.t = "AssignmentNode" THEN <<4, 2, 1, 2, 1>>
    ELSE IF TheExpr.value.t = "AtomNode" THEN <<4, 2, 1, 1, 1>>
    ELSE <<4, 2, 1, 1, 1, 1>>

\* C11: the type the analyzer records for an expression is the type of the
\* rule table, and an expression the table rejects makes analysis fail with a
\* type error, so that its program is never generated.
C11_TypingEqualsRuleTable ==
    (Analyzed /\ HasExpr) =>
        IF TypeOf(TheExpr) = "error"
        THEN pc = "rejected" /\ az.err = "TypeMismatch"
        ELSE /\ TypedPath \in DOMAIN az.node_types
             /\ az.node_types[TypedPath] = TypeOf(TheExpr)
             /\ az.err # "TypeMismatch" \/ FirstStatement.t = "AssignmentNode"
C11_Witness ==
    /\ pc = "generated"
    /\ IfOn("and")
    /\ FirstStatement.condition.value.term.left_operand.value.term.operator = "eq"
    /\ az.node_types[TypedPath] = "boolean"

\* The statements of a program, nested ones included.
RECURSIVE StatementsIn(_)
StatementsIn(n) ==
    IF n.t = "AlgorithmNode" THEN
      UNION {StatementsIn(n.instructions[i]) : i \in 1..Len(n.instructions)}
    ELSE IF n.t = "IfBranchNode" THEN
      {n} \cup StatementsIn(n.then_branch) \cup StatementsIn(n.else_branch)
    ELSE IF n.t \in {"WhileLoopNode", "DoUntilLoopNode"} THEN {n} \cup StatementsIn(n.body)
    ELSE IF n.t = "None" THEN {}
    ELSE {n}
Statements(p) ==
    UNION {UNION {StatementsIn(n) : n \in {m \in sc.nodes : m.t = "AlgorithmNode"}} :
             sc \in ScopesOf(p)}

\* An assignment whose right-hand side is a relational or logical expression.
AssignsBoolean(st) ==
    /\ st.t = "AssignmentNode"
    /\ st.rhs.t = "ParenTermNode"
    /\ st.rhs.term.operator \in {"eq", ">", "and", "or", "not"}

\* C12: a program with an assignment whose right-hand side is a relational or
\* logical expression fails semantic analysis, and no IR is produced for it;
\* with a declared target and a well-typed right-hand side the failure is the
\* type error of the assignment.
C12_BooleanAssignmentRejected ==
    (Analyzed /\ \E st \in Statements(prog) : AssignsBoolean(st)) =>
        /\ pc = "rejected"
        /\ cg = None
        /\ (\A st \in Statements(prog) : AssignsBoolean(st) => TypeOf(st.rhs) = "boolean")
             => az.err = "TypeMismatch"
C12_Witness ==
    /\ pc = "rejected"
    /\ az.err = "TypeMismatch"
    /\ \E st \in Statements(prog) :
         /\ AssignsBoolean(st)
         /\ st.variable.name = "x"
         /\ st.rhs.term.operator = "or"
         /\ TypeOf(st.rhs) = "boolean"

\* An if, a while or a do-until whose condition is a numeric atom.
HasAtomCondition(st) ==
    /\ st.t \in {"IfBranchNode", "WhileLoopNode", "DoUntilLoopNode"}
    /\ st.condition.value.t = "AtomNode"

\* C13: a program with an if, a while or a do-until over a numeric atom,
\* nested anywhere, fails semantic analysis with the non-boolean-condition
\* error (its names being declared).
C13_NumericConditionRejected ==
    (/\ Analyzed
     /\ \E st \in Statements(prog) : HasAtomCondition(st)
     /\ \A u \in ResolvedUses(prog) : ~BadUse(u))
        => pc = "rejected" /\ az.err = "NonBooleanCondition"
C13_Witness ==
    /\ pc = "rejected"
    /\ az.err = "NonBooleanCondition"
    /\ FuncNames(prog) # {}
    /\ \E st \in Statements(prog) :
         /\ st.t = "WhileLoopNode"
         /\ HasAtomCondition(st)
         /\ st.condition.value.value.t = "VarNode"
         /\ st \in StatementsIn(prog.funcs.functions[1].body.algorithm)

\* The procedure and function definitions of a program.
Definitions(p) ==
    {p.procs.procedures[i] : i \in 1..Len(p.procs.procedures)}
      \cup {p.funcs.functions[i] : i \in 1..Len(p.funcs.functions)}
ParamNames(d) == {d.params.variables[i].name : i \in 1..Len(d.params.variables)}
LocalNames(d) == {d.body.locals.variables[i].name : i \in 1..Len(d.body.locals.variables)}
ShadowingDefinition(d) == ParamNames(d) \cap LocalNames(d) # {}

\* C14: analysis of a program with a procedure or function whose local names
\* intersect its parameter names fails, and the failure is the
\* parameter-shadowing error of check_no_shadowing_of_params.
C14_ShadowingReportedAsShadowing ==
    (Analyzed /\ \E d \in Definitions(prog) : ShadowingDefinition(d))
      => (pc = "rejected" /\ az.err = "ParamShadowing")

\* The IR of an algorithm made of print-string statements only.
SayOnly(algo) ==
    \A i \in 1..Len(algo.instructions) :
        algo.instructions[i].t = "PrintNode" /\ algo.instructions[i].output.t = "str"
SayCode(instructions) ==
    [i \in 1..Len(instructions) |-> <<"PRINT", "\"" \o instructions[i].output.s \o "\"">>]
IfWithSayBranches ==
    /\ FirstStatement.t = "IfBranchNode"
    /\ SayOnly(FirstStatement.then_branch)
    /\ FirstStatement.else_branch # NoneNode => SayOnly(FirstStatement.else_branch)
    /\ SayOnly(Algo(Tail(prog.main.algorithm.instructions)))
Generated == cg # None /\ cg.err = "none"
RemLabels(code) == {code[i][2] : i \in {j \in 1..Len(code) : code[j][1] = "REM"}}
\* Jump code: tests, the labels between them and the temporaries of their
\* operands; the last line is a test.
JumpCode(J) ==
    /\ Len(J) > 0
    /\ J[Len(J)][1] = "IF"
    /\ \A i \in 1..Len(J) : J[i][1] \notin {"GOTO", "PRINT", "STOP"}
IsRelational(c) ==
    /\ c.value.t = "ParenTermNode"
    /\ c.value.term.t = "BinaryOperationNode"
    /\ c.value.term.operator \in {"eq", ">"}

\* C15: the IR of an if is, in this order, the condition's jump code (for a
\* relational condition ending in IF ... THEN then), the else-body when there
\* is one, GOTO exit, REM then, the then-body and REM exit as its last line.
C15_IfInstructionOrder ==
    (Generated /\ IfWithSayBranches) =>
      LET code == cg.ir_code
          st == FirstStatement
          else_code == IF st.else_branch # NoneNode
                       THEN SayCode(st.else_branch.instructions) ELSE <<>>
          then_code == SayCode(st.then_branch.instructions)
          rest == SayCode(Tail(prog.main.algorithm.instructions))
      IN  \E n \in 1..Len(code) : \E label_then, label_exit \in RemLabels(code) :
            /\ label_then # label_exit
            /\ JumpCode(SubSeq(code, 1, n))
            /\ IsRelational(st.condition) => code[n][Len(code[n])] = label_then
            /\ code = SubSeq(code, 1, n) \o else_code
                        \o << <<"GOTO", label_exit>>, <<"REM", label_then>> >>
                        \o then_code \o << <<"REM", label_exit>> >> \o rest
C15_Witness ==
    /\ pc = "generated"
    /\ IfOn("or")
    /\ FirstStatement.else_branch # NoneNode
    /\ \E i, j \in 1..Len(cg.ir_code) :
         /\ i < j
         /\ cg.ir_code[i] = <<"PRINT", "\"else\"">>
         /\ cg.ir_code[j] = <<"PRINT", "\"then\"">>

IsIfLine(line)   == line[1] = "IF"
IsRemLine(line)  == line[1] = "REM"
IsGotoLine(line) == line[1] = "GOTO"
IfAndOrOfRelationals ==
    /\ IfOn("and") \/ IfOn("or")
    /\ FirstStatement.else_branch = NoneNode
    /\ IsRelational(FirstStatement.condition.value.term.left_operand)
    /\ IsRelational(FirstStatement.condition.value.term.right_operand)
    /\ IfWithSayBranches

\* C16: the IR of an if without else over and(A, B) or or(A, B), A and B
\* relational, has exactly two IF lines and exactly three REM labels, in the
\* order second-condition label, then label, exit label; the first IF targets
\* the second-condition label for and, the then label for or; the second IF
\* targets the then label.
C16_AndOrTwoTestsThreeLabels ==
    (Generated /\ IfAndOrOfRelationals) =>
      LET ifs   == SelectSeq(cg.ir_code, IsIfLine)
          rems  == SelectSeq(cg.ir_code, IsRemLine)
          gotos == SelectSeq(cg.ir_code, IsGotoLine)
      IN  /\ Len(ifs) = 2
          /\ Len(rems) = 3
          /\ Cardinality({rems[i][2] : i \in 1..3}) = 3
          /\ Len(gotos) = 1 /\ gotos[1][2] = rems[3][2]
          /\ ifs[1][Len(ifs[1])] = (IF IfOn("and") THEN rems[1][2] ELSE rems[2][2])
          /\ ifs[2][Len(ifs[2])] = rems[2][2]
C16_Witness ==
    /\ pc = "generated"
    /\ IfAndOrOfRelationals
    /\ IfOn("and")
    /\ Len(SelectSeq(cg.ir_code, IsIfLine)) = 2
    /\ SelectSeq(cg.ir_code, IsRemLine) = << <<"REM", "L3">>, <<"REM", "L1">>, <<"REM", "L2">> >>

\* The first call site of the last inline_calls: line 2 of the input, a CALL
\* of a callee of the registry whose body has a RETURN, with as many
\* arguments as the callee has parameters.
Returned == ir_code # None /\ raised = "none"
FirstCall == ir_code[2]
FirstCallee == inliner.function_bodies[FirstCall[4]]
FunctionCallFirst ==
    /\ Returned
    /\ Len(ir_code) >= 3
    /\ MatchCall(FirstCall)
    /\ FirstCall[4] \in DOMAIN inliner.function_bodies
    /\ \E j \in 1..Len(FirstCallee.body_ir) : FirstCallee.body_ir[j][1] = "RETURN"
NextIsCopy ==
    /\ Len(ir_code[3]) = 3
    /\ ir_code[3][1] \in UniquePattern
    /\ ir_code[3][2] = "="
    /\ ir_code[3][3] = FirstCall[1]
    /\ FirstCall[1] \in TempPattern
\* Where line j of the first call's body copy is in the output: after the
\* line before the call and the parameter assignments.
CopyLine(j) == inlined_ir[1 + Len(FirstCallee.params) + j]
Lines(code) == {code[j] : j \in 1..Len(code)}

\* C17: for t = CALL f(...) of a known callee with a RETURN, followed by the
\* copy v = t, the output has neither the CALL line nor the copy line and
\* every RETURN place of the body appears as v = place; followed by another
\* instruction, every RETURN place appears as t = place and that instruction
\* is kept.
C17_PeepholeReturnTarget ==
    FunctionCallFirst =>
      LET body == FirstCallee.body_ir
          dest == IF NextIsCopy THEN ir_code[3][1] ELSE FirstCall[1]
      IN  /\ FirstCall \notin Lines(inlined_ir)
          /\ \A j \in 1..Len(body) :
               body[j][1] = "RETURN" => CopyLine(j) = <<dest, "=", body[j][2]>>
          /\ NextIsCopy => ir_code[3] \notin Lines(inlined_ir)
          /\ (~NextIsCopy /\ ~MatchCall(ir_code[3])) => CopyLine(Len(body) + 1) = ir_code[3]

\* The call sites inline_calls inlines: the CALL lines of the callees.
IsSite(code, callees, i) == MatchCall(code[i]) /\ code[i][4] \in callees
SitesUpTo(code, callees, i) == {j \in 1..i : IsSite(code, callees, j)}
Known == DOMAIN inliner.function_bodies
\* The inline counter when the last inline_calls began.
CounterBefore == inliner.inline_counter - Cardinality(SitesUpTo(ir_code, Known, Len(ir_code)))
Occurs(copy, out) ==
    \E start \in 0..(Len(out) - Len(copy)) : SubSeq(out, start + 1, start + Len(copy)) = copy
\* The callee's body as call site i of the last run copied it, its labels
\* carrying the suffix id.
CopyOccurs(i, id) ==
    \E target \in TempPattern \cup UniquePattern \cup {"None"} :
       Occurs(AdaptBody(inliner.function_bodies[ir_code[i][4]].body_ir, target, id), inlined_ir)
NoLabelDefinedTwice(code) ==
    \A i, j \in 1..Len(code) : (code[i][1] = "REM" /\ code[j][1] = "REM" /\ i # j) => code[i] # code[j]

IsUnknownCall(i) == MatchCall(ir_code[i]) /\ ir_code[i][4] \notin Known
WrongCall(i) ==
    /\ IsSite(ir_code, Known, i)
    /\ Len(ir_code[i]) - 6 # Len(inliner.function_bodies[ir_code[i][4]].params)

\* C19: a CALL of a callee the registry does not have is copied to the
\* output unchanged, the instruction after it is kept, the pass goes on with
\* the remaining instructions (later calls are inlined, the last instruction
\* is reached) and the CALL raises no error.
C19_UnknownCalleeKept ==
    ir_code # None => \A i \in 1..Len(ir_code) :
      (IsUnknownCall(i) /\ \A j \in 1..Len(ir_code) : ~WrongCall(j)) =>
        /\ raised = "none"
        /\ \E k \in 1..Len(inlined_ir) :
             /\ inlined_ir[k] = ir_code[i]
             /\ (i < Len(ir_code) /\ ~IsSite(ir_code, Known, i + 1))
                  => (k < Len(inlined_ir) /\ inlined_ir[k + 1] = ir_code[i + 1])
        /\ \A j \in (i + 1)..Len(ir_code) :
             IsSite(ir_code, Known, j) =>
               CopyOccurs(j, CounterBefore + Cardinality(SitesUpTo(ir_code, Known, j)))
        /\ inlined_ir[Len(inlined_ir)] = ir_code[Len(ir_code)]
C19_Witness ==
    /\ Returned
    /\ IsUnknownCall(2)
    /\ ir_code[3] = <<"v_r_1", "=", "t2">>
    /\ IsSite(ir_code, Known, 4)
    /\ inlined_ir[2] = ir_code[2]
    /\ inlined_ir[3] = ir_code[3]
    /\ <<"REM", "L1_inline_1">> \in Lines(inlined_ir)

\* C20: when a CALL of a known callee passes a number of arguments that
\* differs from the callee's parameter count, inline_calls raises the
\* argument-count-mismatch error and returns no instruction list: nothing of
\* what precedes the call site and nothing of the call is delivered.
C20_ArgumentCountMismatchRaises ==
    (ir_code # None /\ \E j \in 1..Len(ir_code) : WrongCall(j)) =>
      (raised = "ArgumentCountMismatch" /\ inlined_ir = None)
C20_Witness ==
    /\ ir_code # None
    /\ IsSite(ir_code, Known, 2) /\ ~WrongCall(2)
    /\ WrongCall(4)
    /\ raised = "ArgumentCountMismatch"
    /\ inlined_ir = None

\* The RETURN lines of the body of the callee of call site i.
BodyOf(i) == inliner.function_bodies[ir_code[i][4]].body_ir
ReturnLines(body) == {j \in 1..Len(body) : body[j][1] = "RETURN"}
\* The return destination of call site i: the variable of the copy that
\* follows it, or the target of the CALL.
ReturnDestination(i) ==
    IF /\ i < Len(ir_code)
       /\ Len(ir_code[i + 1]) = 3
       /\ ir_code[i + 1][1] \in UniquePattern
       /\ ir_code[i + 1][2] = "="
       /\ ir_code[i + 1][3] = ir_code[i][1]
    THEN ir_code[i + 1][1] ELSE ir_code[i][1]

\* C21: after inlining, every RETURN place line of an inlined body is in the
\* output as returnDestination = place and no RETURN line remains, whether
\* the place is a temporary, a unique variable name or an integer literal.
C21_EveryReturnRewritten ==
    Returned =>
      /\ \A k \in 1..Len(inlined_ir) : inlined_ir[k][1] # "RETURN"
      /\ \A i \in 1..Len(ir_code) :
           IsSite(ir_code, Known, i) =>
             \A j \in ReturnLines(BodyOf(i)) :
                <<ReturnDestination(i), "=", BodyOf(i)[j][2]>> \in Lines(inlined_ir)

RECURSIVE MidLabels(_)
\* The and/or nodes of a condition the jump generator lowers.
MidLabels(c) ==
    IF c.value.t # "ParenTermNode" THEN 0
    ELSE IF c.value.term.t = "UnaryOperationNode"
      THEN (IF c.value.term.operator = "not" THEN MidLabels(c.value.term.operand) ELSE 0)
    ELSE IF c.value.term.operator \in {"and", "or"}
      THEN 1 + MidLabels(c.value.term.left_operand) + MidLabels(c.value.term.right_operand)
    ELSE 0
RECURSIVE NamedLabels(_, _)
\* The labels the lowering rules name for the statements i.. of an algorithm:
\* if 2, while 3, do-until 1, each and/or of a jump-lowered condition 1.
NamedLabels(algo, i) ==
    IF algo = NoneNode THEN 0
    ELSE IF i > Len(algo.instructions) THEN 0
    ELSE LET st == algo.instructions[i]
             here == IF st.t = "IfBranchNode"
                       THEN 2 + MidLabels(st.condition) + NamedLabels(st.then_branch, 1)
                              + NamedLabels(st.else_branch, 1)
                     ELSE IF st.t = "WhileLoopNode"
                       THEN 3 + MidLabels(st.condition) + NamedLabels(st.body, 1)
                     ELSE IF st.t = "DoUntilLoopNode" THEN 1 + NamedLabels(st.body, 1)
                     ELSE 0
         IN  here + NamedLabels(algo, i + 1)

\* C22: generating a body advances the label counter by the number of labels
\* the lowering rules name: 2 per if (with or without else), 3 per while,
\* 1 per do-until and 1 per and/or.
C22_LabelCounterMatchesNamedLabels ==
    Generated => cg.label_counter = NamedLabels(prog.main.algorithm, 1)

IsJumpLine(line) == line[1] \in {"GOTO", "IF"}

\* C23: in the output of inline_calls every label a copied body defines and
\* every label a GOTO or IF ... THEN of a copied body names carries the
\* _inline_<k> suffix: the only unsuffixed labels L<n> are those of the lines
\* of the calling body.
C23_CopiedLabelsSuffixed ==
    Returned =>
      \A k \in 1..Len(inlined_ir) :
        /\ (IsRemLine(inlined_ir[k]) /\ inlined_ir[k][2] \in LabelPattern)
             => inlined_ir[k] \in Lines(ir_code)
        /\ (IsJumpLine(inlined_ir[k]) /\ inlined_ir[k][Len(inlined_ir[k])] \in LabelPattern)
             => inlined_ir[k] \in Lines(ir_code)

\* Call site j of code passes a number of arguments other than the number
\* of parameters of its callee.
WrongAt(code, inl, j) ==
    /\ IsSite(code, DOMAIN inl.function_bodies, j)
    /\ Len(code[j]) - 6 # Len(inl.function_bodies[code[j][4]].params)
\* The call sites of code that inline_calls inlines before it ends or raises.
InlinedSites(code, inl) ==
    {i \in 1..Len(code) :
       IsSite(code, DOMAIN inl.function_bodies, i) /\ \A j \in 1..i : ~WrongAt(code, inl, j)}

\* C24: an inline_calls run adds to the inliner's counter exactly the number
\* of calls it inlined; no other instruction changes it, neither a CALL of an
\* unknown callee nor the CALL that fails with the argument count mismatch.
C24_CounterCountsInlinedCalls ==
    [][inliner'.inline_counter
         = inliner.inline_counter + Cardinality(InlinedSites(ir_code', inliner))]_vars

\* Errors that only the check of a procedure, function or main body raises.
BodyErrors ==
    {"UndeclaredIdentifier", "KindMismatch", "TypeMismatch", "NonBooleanCondition",
     "NonNumericReturn", "ParamShadowing"}
\* A SymbolInfo of a global declaration: its node is a child of the globals,
\* procs or funcs node of the program.
IsGlobalInfo(info) == Len(info.node_id) = 2

\* C25: on a fresh analyzer the scope stack has depth 1 in the global phase
\* and depth 2 while a body is checked: global variables and signatures are
\* recorded with scope_level 1, parameters and locals with scope_level 2.
C25_ScopeDepthOneAndTwo ==
    Analyzed =>
      /\ \A q \in DOMAIN az.annot :
           az.annot[q].scope_level = (IF IsGlobalInfo(az.annot[q]) THEN 1 ELSE 2)
      /\ az.err = "GlobalNameClash" => Len(az.symbol_table.scopes) = 1
      /\ az.err \in BodyErrors => Len(az.symbol_table.scopes) = 2

RECURSIVE ExprNodes(_, _)
\* The ids of the expression nodes (Atom, Term, ParenTerm, UnaryOp, BinaryOp,
\* FunctionCall) below node n, n being at path.
ExprNodes(n, path) ==
    IF n = NoneNode THEN {}
    ELSE IF n.t = "AlgorithmNode"
      THEN UNION {ExprNodes(n.instructions[i], path \o <<i>>) : i \in 1..Len(n.instructions)}
    ELSE IF n.t = "IfBranchNode"
      THEN ExprNodes(n.condition, path \o <<1>>) \cup ExprNodes(n.then_branch, path \o <<2>>)
             \cup ExprNodes(n.else_branch, path \o <<3>>)
    ELSE IF n.t = "WhileLoopNode"
      THEN ExprNodes(n.condition, path \o <<1>>) \cup ExprNodes(n.body, path \o <<2>>)
    ELSE IF n.t = "DoUntilLoopNode"
      THEN ExprNodes(n.body, path \o <<1>>) \cup ExprNodes(n.condition, path \o <<2>>)
    ELSE IF n.t = "AssignmentNode" THEN ExprNodes(n.rhs, path \o <<2>>)
    ELSE IF n.t = "PrintNode"
      THEN (IF n.output.t = "AtomNode" THEN {path \o <<1>>} ELSE {})
    ELSE IF n.t = "ProcedureCallNode"
      THEN {path \o <<2, k>> : k \in 1..Len(n.arguments.arguments)}
    ELSE IF n.t = "FunctionCallNode"
      THEN {path} \cup {path \o <<2, k>> : k \in 1..Len(n.arguments.arguments)}
    ELSE IF n.t = "TermNode" THEN {path} \cup ExprNodes(n.value, path \o <<1>>)
    ELSE IF n.t = "ParenTermNode" THEN {path} \cup ExprNodes(n.term, path \o <<1>>)
    ELSE IF n.t = "UnaryOperationNode" THEN {path} \cup ExprNodes(n.operand, path \o <<1>>)
    ELSE IF n.t = "BinaryOperationNode"
      THEN {path} \cup ExprNodes(n.left_operand, path \o <<1>>)
                  \cup ExprNodes(n.right_operand, path \o <<2>>)
    ELSE IF n.t = "AtomNode" THEN {path}
    ELSE {}
MainTyped == {q \in DOMAIN az.node_types : q[1] = 4}

\* C26: after a successful analyze the type map has an entry for every
\* expression node of the main algorithm (Atom, Term, ParenTerm, UnaryOp,
\* BinaryOp, FunctionCall) and for no other node of it.
C26_EveryExpressionNodeTyped ==
    (Analyzed /\ az.err = "none") =>
      MainTyped = ExprNodes(prog.main.algorithm, <<4, 2>>)

\* The first statement of main is a do-until, and code generation has been
\* attempted for it.
DoUntilLowered ==
    /\ FirstStatement.t = "DoUntilLoopNode"
    /\ pc \in {"cgfailed", "generated", "running", "halted", "aborted"}
\* The lines IF <place> = 0 THEN <label> of the code, <place> being the place
\* the line before stores into.
UntilLines(ir, label) ==
    {k \in 2..Len(ir) : ir[k] = <<"IF", ir[k - 1][1], "=", "0", "THEN", label>>}

\* C27: a do-until is lowered to REM bodyL, the body, the evaluation of the
\* condition into one place and IF <place> = 0 THEN bodyL; in an execution
\* the place holds 1 or 0 as the source condition is true or false, the loop
\* is entered again only when the condition is false, and it is left, the body
\* having run at least once, only when the condition is true.
C27_DoUntilRepeatsUntilTrue ==
    DoUntilLowered =>
      /\ Generated
      /\ cg.ir_code[1][1] = "REM"
      /\ \E k \in UntilLines(cg.ir_code, cg.ir_code[1][2]) :
           /\ UntilLines(cg.ir_code, cg.ir_code[1][2]) = {k}
           /\ LabelLines(cg.ir_code, cg.ir_code[1][2]) = {1}
           /\ (Ran /\ ip = k) =>
                 store[cg.ir_code[k - 1][1]] = EvalTerm(FirstStatement.condition)
           /\ (Ran /\ ip = 1 /\ 1 \in visited) => EvalTerm(FirstStatement.condition) = 0
           /\ (Ran /\ ip = k + 1) =>
                 /\ 1..k \subseteq visited
                 /\ EvalTerm(FirstStatement.condition) = 1

\* The label a GOTO or an IF ... THEN line jumps to.
JumpTarget(line) == line[Len(line)]

\* C28: in the code generated for an accepted program every label a GOTO or
\* an IF ... THEN line names is defined by exactly one REM line of that code,
\* and no label is defined by two REM lines.
C28_EveryJumpTargetDefinedOnce ==
    Generated =>
      /\ \A i \in 1..Len(cg.ir_code) :
           IsJumpLine(cg.ir_code[i]) =>
             Cardinality(LabelLines(cg.ir_code, JumpTarget(cg.ir_code[i]))) = 1
      /\ \A i \in 1..Len(cg.ir_code) :
           cg.ir_code[i][1] = "REM" =>
             LabelLines(cg.ir_code, cg.ir_code[i][2]) = {i}

\* The execution has passed a line PRINT "<str>".
Said(str) == \E i \in visited : cg.ir_code[i] = <<"PRINT", "\"" \o str \o "\"">>

\* C29: the execution of the code of an if whose branches print "then" and
\* "else" ends normally, having run the then-branch exactly when the source
\* condition is true and the else-branch, if there is one, exactly when it is
\* false.
C29_IfRunsTheBranchOfItsCondition ==
    (IfWithSayBranches /\ pc \in {"halted", "aborted"}) =>
      /\ pc = "halted"
      /\ Said("then") <=> EvalTerm(FirstStatement.condition) = 1
      /\ FirstStatement.else_branch # NoneNode =>
           (Said("else") <=> EvalTerm(FirstStatement.condition) = 0)

\* The first statement of main is a while whose body starts with print "body"
\* and which is followed by print "after".
WhileWithSayBody ==
    /\ FirstStatement.t = "WhileLoopNode"
    /\ FirstStatement.body.instructions[1] = Say("body")
    /\ prog.main.algorithm.instructions[2] = Say("after")

\* C30: in an execution of the code of a while the body is entered only when
\* the source condition is true, and the line after the loop's REM exitL is
\* reached only when it is false: a loop whose condition is false on entry
\* runs its body zero times.
C30_WhileBodyOnlyWhenTrue ==
    (WhileWithSayBody /\ Ran) =>
      \A i \in 1..Len(cg.ir_code) :
        /\ (ip = i /\ cg.ir_code[i] = <<"PRINT", "\"body\"">>) =>
              EvalTerm(FirstStatement.condition) = 1
        /\ (ip = i /\ cg.ir_code[i] = <<"PRINT", "\"after\"">>) =>
              /\ EvalTerm(FirstStatement.condition) = 0
              /\ cg.ir_code[i - 1][1] = "REM"
              /\ i - 1 \in visited

====
